---- MODULE Spec2Model ----
(***************************************************************************)
(* A model of the pycca runtime assembler: the deferred-code buffer        *)
(* (Code), the relative-branch and general instruction encoder, the        *)
(* Intel-syntax front-end (parse_asm) and the code page (CodePage).        *)
(*                                                                         *)
(* Byte strings are sequences of 0..255.  A Python exception is a result   *)
(* record whose err field names the exception class.                       *)
(***************************************************************************)
EXTENDS Integers, Sequences, FiniteSets, TLC

VARIABLES
    ARCH,      \* process bitness, fixed at import time (32 or 64)
    asm,       \* the structured program handed to CodePage / rendered to text
    pages,     \* the CodePage objects built so far, in construction order
    fn,        \* the last callable obtained from get_function
    bufA,      \* a Code buffer (left operand of concatenations)
    bufB,      \* a Code buffer (right operand of concatenations)
    out,       \* the value of the concatenate-and-compile expression just
               \* evaluated (dropped when the next statement runs)
    inst       \* an Instruction object with its lazily filled caches

vars == <<ARCH, asm, pages, fn, bufA, bufB, out, inst>>

-----------------------------------------------------------------------------
(* Results and byte strings                                                *)

Ok(v) == [err |-> "", val |-> v]
Err(e) == [err |-> e, val |-> <<>>]

Min(a, b) == IF a < b THEN a ELSE b

\* s[:n] for n >= 0
Take(s, n) == SubSeq(s, 1, Min(n, Len(s)))
\* s[n:] for n >= 0
Drop(s, n) == SubSeq(s, Min(n, Len(s)) + 1, Len(s))

RECURSIVE Pow256(_)
Pow256(k) == IF k = 0 THEN 1 ELSE 256 * Pow256(k - 1)

\* number of bytes of a struct format character
PackSize(packing) ==
    CASE packing \in {"b", "B"} -> 1
      [] packing \in {"h", "H"} -> 2
      [] packing \in {"i", "I"} -> 4

\* little-endian two's-complement bytes of v, n bytes (n <= 4)
LEBytes(v, n) == [k \in 1..n |-> (v \div Pow256(k - 1)) % 256]

\* struct.pack(packing, v) for the signed formats of 1, 2 and 4 bytes:
\* struct.error when v is out of the format's range
struct_pack(packing, v) ==
    LET n == PackSize(packing)
        half == IF n = 4 THEN 2147483647 ELSE Pow256(n) \div 2 - 1
    IN  IF v > half \/ v < (0 - half) - 1
        THEN Err("struct.error")
        ELSE Ok(LEBytes(v, n))

\* struct.unpack of a signed little-endian field of Len(bs) <= 4 bytes
RECURSIVE UnsignedLE(_)
UnsignedLE(bs) ==
    IF bs = <<>> THEN 0
    ELSE IF Len(bs) = 4
         THEN \* keep the top byte signed so that the sum stays in range
              (IF bs[4] >= 128 THEN bs[4] - 256 ELSE bs[4]) * 16777216
                  + UnsignedLE(SubSeq(bs, 1, 3))
         ELSE bs[Len(bs)] * Pow256(Len(bs) - 1) + UnsignedLE(SubSeq(bs, 1, Len(bs) - 1))

struct_unpack(bs) ==
    IF Len(bs) = 4 THEN UnsignedLE(bs)
    ELSE IF bs[Len(bs)] >= 128 THEN UnsignedLE(bs) - Pow256(Len(bs)) ELSE UnsignedLE(bs)

-----------------------------------------------------------------------------
(* Code: the deferred buffer (pycca/asm/code.py)                           *)

\* A fill expression "<sym> - <sub> + <add>"; sub = "" when nothing is
\* subtracted.  These are the shapes the assembler writes
\* ("label - next_instr_addr") and the tests use ("x + 8").
Expr(sym, sub, add) == [sym |-> sym, sub |-> sub, add |-> add]

\* names of Python's builtins module, which eval adds to the globals it
\* is given
Builtins == {"next"}

\* eval(expr, symbols): NameError when a name is bound neither in symbols
\* nor in the builtins; a builtin function takes no part in arithmetic
\* (TypeError), and alone it is a value struct.pack refuses
eval(expr, symbols) ==
    IF expr.sym \notin DOMAIN symbols \cup Builtins
           \/ (expr.sub # "" /\ expr.sub \notin DOMAIN symbols \cup Builtins)
    THEN Err("NameError")
    ELSE IF expr.sym \notin DOMAIN symbols \/ (expr.sub # "" /\ expr.sub \notin DOMAIN symbols)
    THEN IF expr.sub = "" /\ expr.add = 0 THEN Err("struct.error") ELSE Err("TypeError")
    ELSE Ok(symbols[expr.sym] - (IF expr.sub = "" THEN 0 ELSE symbols[expr.sub]) + expr.add)

Code(code) == [code |-> code, replacements |-> <<>>]

Code_replace(self, index, expr, packing) ==
    [self EXCEPT !.replacements =
        Append(@, [index |-> index, expr |-> expr, packing |-> packing])]

\* a variant of the splice that inserts the packed value and keeps every
\* byte of the buffer after it
Splice_insert(code, i, val) == Take(code, i) \o val \o Drop(code, i)

\* one iteration of the loop of Code.compile: code[:i] + val + code[i+len(val):]
Splice(code, i, val) == Take(code, i) \o val \o Drop(code, i + Len(val))

RECURSIVE CompileFrom(_, _, _, _)
CompileFrom(code, replacements, k, symbols) ==
    IF k > Len(replacements) THEN Ok(code)
    ELSE LET r == replacements[k]
             v == eval(r.expr, symbols)
         IN  IF v.err # "" THEN Err(v.err)
             ELSE LET p == struct_pack(r.packing, v.val)
                  IN  IF p.err # "" THEN Err(p.err)
                      ELSE CompileFrom(Splice(code, r.index, p.val),
                                       replacements, k + 1, symbols)

Code_compile(self, symbols) == CompileFrom(self.code, self.replacements, 1, symbols)

\* the fills of a buffer, each moved right by shift bytes
Shifted(replacements, shift) ==
    [k \in 1..Len(replacements) |->
        [replacements[k] EXCEPT !.index = @ + shift]]

\* a variant of Code.__add__ that appends the right-hand fills unshifted
Code_add_unshifted(self, x) ==
    [code |-> self.code \o x.code,
     replacements |-> self.replacements \o x.replacements]

\* Code.__add__ with a Code on the right
Code_add(self, x) ==
    [code |-> self.code \o x.code,
     replacements |-> self.replacements \o Shifted(x.replacements, Len(self.code))]

\* Code.__add__ with bytes on the right
Code_add_bytes(self, x) ==
    [code |-> self.code \o x, replacements |-> self.replacements]

\* Code.__radd__: bytes on the left
Code_radd(self, x) ==
    [code |-> x \o self.code, replacements |-> Shifted(self.replacements, Len(x))]

\* every fill of the buffer overwrites bytes the buffer has
FillsInside(self) ==
    \A k \in 1..Len(self.replacements) :
        self.replacements[k].index + PackSize(self.replacements[k].packing)
            <= Len(self.code)

\* result of a concatenation of results: the first exception wins
CatResults(rs) ==
    IF \E k \in 1..Len(rs) : rs[k].err # ""
    THEN Err(rs[CHOOSE k \in 1..Len(rs) :
                    rs[k].err # "" /\ \A j \in 1..(k - 1) : rs[j].err = ""].err)
    ELSE LET RECURSIVE cat(_)
             cat(k) == IF k > Len(rs) THEN <<>> ELSE rs[k].val \o cat(k + 1)
         IN  Ok(cat(1))

-----------------------------------------------------------------------------
(* Python integers.  An integer argument is kept as three limbs,           *)
(* value = h * 2^48 + m * 2^24 + l with 0 <= m, l < 2^24, so that 64-bit   *)
(* immediates and their range tests are exact.                             *)

Limb == 4096 * 4096

\* carry the limbs into range
WNorm(h, m, l) ==
    LET m1 == m + (l \div Limb)
    IN  [h |-> h + (m1 \div Limb), m |-> m1 % Limb, l |-> l % Limb]

\* the integer n, |n| < 2^31
WInt(n) == WNorm(0, 0, n)

WAdd(w, n) == WNorm(w.h, w.m, w.l + n)

WIsPositive(w) == w.h > 0 \/ (w.h = 0 /\ (w.m > 0 \/ w.l > 0))

\* -2^(bits-1) <= w < 2^(bits-1)
FitsSigned(w, bits) ==
    CASE bits = 8  -> \/ (w.h = 0 /\ w.m = 0 /\ w.l <= 127)
                      \/ (w.h = -1 /\ w.m = Limb - 1 /\ w.l >= Limb - 128)
      [] bits = 16 -> \/ (w.h = 0 /\ w.m = 0 /\ w.l <= 32767)
                      \/ (w.h = -1 /\ w.m = Limb - 1 /\ w.l >= Limb - 32768)
      [] bits = 32 -> \/ (w.h = 0 /\ w.m <= 127)
                      \/ (w.h = -1 /\ w.m >= Limb - 128)
      [] bits = 64 -> w.h >= -32768 /\ w.h <= 32767

\* 0 <= w < 2^bits
FitsUnsigned(w, bits) ==
    CASE bits = 8  -> w.h = 0 /\ w.m = 0 /\ w.l <= 255
      [] bits = 16 -> w.h = 0 /\ w.m = 0 /\ w.l <= 65535
      [] bits = 32 -> w.h = 0 /\ w.m <= 255
      [] bits = 64 -> w.h >= 0 /\ w.h <= 65535

\* the low bits/8 bytes of w, little-endian
WBytes(w, bits) ==
    LET all == <<w.l % 256, (w.l \div 256) % 256, w.l \div 65536,
                 w.m % 256, (w.m \div 256) % 256, w.m \div 65536,
                 w.h % 256, (w.h \div 256) % 256>>
    IN  SubSeq(all, 1, bits \div 8)

\* the value of a w that fits 32 bits signed
WSmall(w) == (IF w.h = -1 THEN w.m - Limb ELSE w.m) * Limb + w.l

\* struct.pack of a signed / unsigned format of bits/8 bytes
pack_signed(w, bits) ==
    IF FitsSigned(w, bits) THEN Ok(WBytes(w, bits)) ELSE Err("struct.error")

pack_unsigned(w, bits) ==
    IF FitsUnsigned(w, bits) THEN Ok(WBytes(w, bits)) ELSE Err("struct.error")

Widths == <<8, 16, 32, 64>>

\* 8 * len(pack_int(x, int8=True)): 0 stands for struct.error
pack_int_bits(w) ==
    IF \E k \in 1..4 : FitsSigned(w, Widths[k])
    THEN Widths[CHOOSE k \in 1..4 :
                    FitsSigned(w, Widths[k]) /\ \A j \in 1..(k - 1) : ~FitsSigned(w, Widths[j])]
    ELSE 0

\* 8 * len(pack_uint(x, uint8=True)): 0 stands for struct.error
pack_uint_bits(w) ==
    IF \E k \in 1..4 : FitsUnsigned(w, Widths[k])
    THEN Widths[CHOOSE k \in 1..4 :
                    FitsUnsigned(w, Widths[k]) /\ \A j \in 1..(k - 1) : ~FitsUnsigned(w, Widths[j])]
    ELSE 0

\* a | b on bytes
RECURSIVE BitOr(_, _)
BitOr(a, b) ==
    IF a = 0 THEN b
    ELSE IF b = 0 THEN a
    ELSE 2 * BitOr(a \div 2, b \div 2) + (IF a % 2 = 1 \/ b % 2 = 1 THEN 1 ELSE 0)

-----------------------------------------------------------------------------
(* Registers (register.py) and arguments                                   *)

\* first is name[0], which check_arch reads
Register(val, name, bits, first) ==
    [_val |-> val, name |-> name, bits |-> bits, first |-> first]

NoReg == Register(0, "", 0, "")

al == Register(0, "al", 8, "a")
ax == Register(0, "ax", 16, "a")
cx == Register(1, "cx", 16, "c")
eax == Register(0, "eax", 32, "e")
ecx == Register(1, "ecx", 32, "e")
rax == Register(0, "rax", 64, "r")
rcx == Register(1, "rcx", 64, "r")
r8 == Register(8, "r8", 64, "r")
r9d == Register(9, "r9d", 32, "r")
bx == Register(3, "bx", 16, "b")
si == Register(6, "si", 16, "s")
esp == Register(4, "esp", 32, "e")
ebp == Register(5, "ebp", 32, "e")
rsp == Register(4, "rsp", 64, "r")
rbp == Register(5, "rbp", 64, "r")
r13 == Register(13, "r13", 64, "r")
r12 == Register(12, "r12", 64, "r")

Register_val(self) == self._val % 8
Register_rex(self) == (self._val \div 8) % 2 = 1

\* Register.check_arch: TRUE when it raises TypeError
\* a variant of check_arch that refuses only the registers of 64 bits
check_arch_raises_wide(self) == ARCH = 32 /\ self.bits = 64

check_arch_raises(self) == ARCH = 32 /\ self.first = "r"

\* Pointer.__init__ with its four keyword arguments; None is <<>>
Pointer(reg1, scale, reg2, disp) ==
    [reg1 |-> reg1, scale |-> scale, reg2 |-> reg2, disp |-> disp, _bits |-> <<>>]

\* no Pointer
NoPtr == Pointer(<<>>, <<>>, <<>>, <<>>)

\* The arguments of an instruction: a Register, an int, a str (a label
\* name), a byte string or a Pointer.
RegArg(r) == [t |-> "reg", reg |-> r, w |-> WInt(0), s |-> "", data |-> <<>>, ptr |-> NoPtr]
IntArg(w) == [t |-> "int", reg |-> NoReg, w |-> w, s |-> "", data |-> <<>>, ptr |-> NoPtr]
\* a str keeps its characters' codes in data, for len()
StrArg(s) == [t |-> "str", reg |-> NoReg, w |-> WInt(0), s |-> s,
              data |-> CASE s = "a" -> <<97>> [] s = "b" -> <<98>> [] OTHER -> <<110>>,
              ptr |-> NoPtr]
BytesArg(d) == [t |-> "bytes", reg |-> NoReg, w |-> WInt(0), s |-> "", data |-> d,
                ptr |-> NoPtr]
PtrArg(p) == [t |-> "ptr", reg |-> NoReg, w |-> WInt(0), s |-> "", data |-> <<>>, ptr |-> p]

-----------------------------------------------------------------------------
(* Effective addresses built by arithmetic (register.py, pointer.py)       *)

\* Pointer.copy: the data width is not copied
Pointer_copy(self) == Pointer(self.reg1, self.scale, self.reg2, self.disp)

\* the sum of two integers
WPlus(a, b) == WNorm(a.h + b.h, a.m + b.m, a.l + b.l)

\* Pointer.__add__, x a Register, with a third register taking the place
\* of the second
Pointer_add_Register_over(y, r) ==
    IF y.reg1 = <<>> THEN Ok([y EXCEPT !.reg1 = <<r>>])
    ELSE Ok([y EXCEPT !.reg2 = <<r>>])

\* Pointer.__add__, x a Register: the first free register slot takes it
Pointer_add_Register(y, r) ==
    IF y.reg1 = <<>> THEN Ok([y EXCEPT !.reg1 = <<r>>])
    ELSE IF y.reg2 = <<>> THEN Ok([y EXCEPT !.reg2 = <<r>>])
    ELSE Err("TypeError")

\* Pointer.__add__, x an int
Pointer_add_int(y, w) ==
    Ok([y EXCEPT !.disp = IF @ = <<>> THEN <<w>> ELSE <<WPlus(@[1], w)>>])

\* Pointer.__add__, x a Pointer with a scaled reg1 that takes the place of
\* reg1 of y
add_scaled_over(y, x) ==
    IF y.scale # <<>> THEN Err("TypeError")
    ELSE IF y.reg1 # <<>> /\ y.reg2 # <<>> THEN Err("TypeError")
    ELSE Ok([y EXCEPT !.reg1 = x.reg1, !.scale = x.scale])

\* Pointer.__add__, x a Pointer with a scaled reg1: reg1 of y moves to reg2
add_scaled(y, x) ==
    IF y.scale # <<>> THEN Err("TypeError")
    ELSE IF y.reg1 # <<>> /\ y.reg2 # <<>> THEN Err("TypeError")
    ELSE Ok([y EXCEPT !.reg2 = IF y.reg1 # <<>> THEN y.reg1 ELSE @,
                      !.reg1 = x.reg1,
                      !.scale = x.scale])

\* Pointer.__add__, x a Pointer: its reg1, added to what r holds
add_reg1(r, x) ==
    IF r.err # "" THEN r
    ELSE IF x.reg1 = <<>> THEN r
    ELSE IF x.scale = <<>> THEN Pointer_add_Register(r.val, x.reg1[1])
    ELSE add_scaled(r.val, x)

\* Pointer.__add__, x a Pointer: its reg2, added to what r holds
add_reg2(r, x) ==
    IF x.reg2 = <<>> THEN r ELSE Pointer_add_Register(r.val, x.reg2[1])

\* Pointer.__add__, x a Pointer: its disp, then its reg2, then its reg1
Pointer_add_Pointer(y, x) ==
    add_reg1(add_reg2(IF x.disp # <<>> THEN Pointer_add_int(y, x.disp[1]) ELSE Ok(y), x), x)

\* Pointer.__add__: any other type of x leaves the copy as it is
Pointer_add(self, x) ==
    CASE x.t = "reg" -> Pointer_add_Register(Pointer_copy(self), x.reg)
      [] x.t = "int" -> Pointer_add_int(Pointer_copy(self), x.w)
      [] x.t = "ptr" -> Pointer_add_Pointer(Pointer_copy(self), x.ptr)
      [] OTHER       -> Ok(Pointer_copy(self))

\* Register.__add__
Register_add(self, x) ==
    CASE x.t = "reg" -> Ok(Pointer(<<self>>, <<>>, <<x.reg>>, <<>>))
      [] x.t = "ptr" -> Pointer_add(x.ptr, RegArg(self))
      [] x.t = "int" -> Ok(Pointer(<<self>>, <<>>, <<>>, <<x.w>>))
      [] OTHER       -> Err("TypeError")

\* Register.__mul__ by an int
Register_mul(self, n) ==
    IF n \notin {1, 2, 4, 8} THEN Err("ValueError")
    ELSE Ok(Pointer(<<self>>, <<n>>, <<>>, <<>>))

\* the registers of a Pointer that are not None, reg1 first
Pointer_regs(self) == self.reg1 \o self.reg2

\* Pointer.prefix: 0x67 when the widest register is half the word size
Pointer_prefix(self) ==
    IF Pointer_regs(self) = <<>> THEN <<>>
    ELSE IF \E k \in 1..Len(Pointer_regs(self)) :
               /\ Pointer_regs(self)[k].bits = ARCH \div 2
               /\ \A j \in 1..Len(Pointer_regs(self)) :
                      Pointer_regs(self)[j].bits <= Pointer_regs(self)[k].bits
    THEN <<103>>
    ELSE <<>>

\* Pointer.check_arch: TRUE when it raises TypeError
Pointer_check_arch_raises(self) ==
    \E k \in 1..Len(Pointer_regs(self)) : check_arch_raises(Pointer_regs(self)[k])

\* the Pointer a sum gave, as a value
as_value(r) == IF r.err # "" THEN r ELSE Ok(PtrArg(r.val))

\* a + b: a.__add__(b), or b.__radd__(a) when a is an int
py_add(a, b) ==
    CASE a.t = "reg" -> as_value(Register_add(a.reg, b))
      [] a.t = "ptr" -> as_value(Pointer_add(a.ptr, b))
      [] a.t = "int" /\ b.t = "reg" -> as_value(Register_add(b.reg, a))
      [] a.t = "int" /\ b.t = "ptr" -> as_value(Pointer_add(b.ptr, a))
      [] a.t = "int" /\ b.t = "int" -> Ok(IntArg(WPlus(a.w, b.w)))
      [] OTHER -> Err("TypeError")

-----------------------------------------------------------------------------
(* Per-mnemonic tables (instructions.py)                                   *)

\* An operand tag such as 'r/m32', 'imm16u' or 'rel32', kept as the pieces
\* check_mode splits it into: type, width, and the 'u' hint.
Tag(ty, bits) == [ty |-> ty, bits |-> bits, u |-> FALSE]
TagU(ty, bits) == [ty |-> ty, bits |-> bits, u |-> TRUE]

\* An opcode template as generate_instruction_parts reads it: 'REX.W +',
\* the opcode bytes, '+r' (register in the opcode), and the '/digit'
\* opcode extension (-1: none).
Op(rexw, bytes, plus, ext) == [rexw |-> rexw, bytes |-> bytes, plus |-> plus, ext |-> ext]

\* one entry of a modes table: signature -> [template, encoding key, 64-bit, 32-bit]
Mode(sig, op, enc, a64, a32) == [sig |-> sig, op |-> op, enc |-> enc, a64 |-> a64, a32 |-> a32]

push_modes == <<
    Mode(<<Tag("r/m", 16)>>, Op(FALSE, <<255>>, FALSE, 6), "m", TRUE, TRUE),
    Mode(<<Tag("r/m", 32)>>, Op(FALSE, <<255>>, FALSE, 6), "m", FALSE, TRUE),
    Mode(<<Tag("r/m", 64)>>, Op(FALSE, <<255>>, FALSE, 6), "m", TRUE, FALSE),
    Mode(<<Tag("r", 16)>>, Op(FALSE, <<80>>, TRUE, -1), "o", TRUE, TRUE),
    Mode(<<Tag("r", 32)>>, Op(FALSE, <<80>>, TRUE, -1), "o", FALSE, TRUE),
    Mode(<<Tag("r", 64)>>, Op(FALSE, <<80>>, TRUE, -1), "o", TRUE, FALSE),
    Mode(<<Tag("imm", 8)>>, Op(FALSE, <<106>>, FALSE, -1), "i", TRUE, TRUE),
    Mode(<<Tag("imm", 32)>>, Op(FALSE, <<104>>, FALSE, -1), "i", TRUE, TRUE) >>

ret_modes == <<
    Mode(<<Tag("imm", 16)>>, Op(FALSE, <<194>>, FALSE, -1), "i", TRUE, TRUE),
    Mode(<<>>, Op(FALSE, <<195>>, FALSE, -1), "", TRUE, TRUE) >>

call_modes == <<
    Mode(<<Tag("rel", 32)>>, Op(FALSE, <<232>>, FALSE, -1), "i", TRUE, TRUE),
    Mode(<<Tag("r/m", 16)>>, Op(FALSE, <<255>>, FALSE, 2), "m", FALSE, TRUE),
    Mode(<<Tag("r/m", 32)>>, Op(FALSE, <<255>>, FALSE, 2), "m", FALSE, TRUE),
    Mode(<<Tag("r/m", 64)>>, Op(FALSE, <<255>>, FALSE, 2), "m", TRUE, FALSE) >>

add_modes == <<
    Mode(<<Tag("r/m", 8), Tag("imm", 8)>>, Op(FALSE, <<128>>, FALSE, 0), "mi", TRUE, TRUE),
    Mode(<<Tag("r/m", 16), Tag("imm", 16)>>, Op(FALSE, <<129>>, FALSE, 0), "mi", TRUE, TRUE),
    Mode(<<Tag("r/m", 32), Tag("imm", 32)>>, Op(FALSE, <<129>>, FALSE, 0), "mi", TRUE, TRUE),
    Mode(<<Tag("r/m", 64), Tag("imm", 32)>>, Op(TRUE, <<129>>, FALSE, 0), "mi", TRUE, FALSE),
    Mode(<<Tag("r/m", 16), Tag("imm", 8)>>, Op(FALSE, <<131>>, FALSE, 0), "mi", TRUE, TRUE),
    Mode(<<Tag("r/m", 32), Tag("imm", 8)>>, Op(FALSE, <<131>>, FALSE, 0), "mi", TRUE, TRUE),
    Mode(<<Tag("r/m", 64), Tag("imm", 8)>>, Op(TRUE, <<131>>, FALSE, 0), "mi", TRUE, FALSE),
    Mode(<<Tag("r/m", 8), Tag("r", 8)>>, Op(FALSE, <<0>>, FALSE, -1), "mr", TRUE, TRUE),
    Mode(<<Tag("r/m", 16), Tag("r", 16)>>, Op(FALSE, <<1>>, FALSE, -1), "mr", TRUE, TRUE),
    Mode(<<Tag("r/m", 32), Tag("r", 32)>>, Op(FALSE, <<1>>, FALSE, -1), "mr", TRUE, TRUE),
    Mode(<<Tag("r/m", 64), Tag("r", 64)>>, Op(TRUE, <<1>>, FALSE, -1), "mr", TRUE, FALSE),
    Mode(<<Tag("r", 8), Tag("r/m", 8)>>, Op(FALSE, <<2>>, FALSE, -1), "rm", TRUE, TRUE),
    Mode(<<Tag("r", 16), Tag("r/m", 16)>>, Op(FALSE, <<3>>, FALSE, -1), "rm", TRUE, TRUE),
    Mode(<<Tag("r", 32), Tag("r/m", 32)>>, Op(FALSE, <<3>>, FALSE, -1), "rm", TRUE, TRUE),
    Mode(<<Tag("r", 64), Tag("r/m", 64)>>, Op(TRUE, <<3>>, FALSE, -1), "rm", TRUE, FALSE) >>

inc_modes == <<
    Mode(<<Tag("r/m", 8)>>, Op(FALSE, <<254>>, FALSE, 0), "m", TRUE, TRUE),
    Mode(<<Tag("r/m", 16)>>, Op(FALSE, <<255>>, FALSE, 0), "m", TRUE, TRUE),
    Mode(<<Tag("r/m", 32)>>, Op(FALSE, <<255>>, FALSE, 0), "m", TRUE, TRUE),
    Mode(<<Tag("r/m", 64)>>, Op(TRUE, <<255>>, FALSE, 0), "m", TRUE, FALSE),
    Mode(<<Tag("r", 16)>>, Op(FALSE, <<64>>, TRUE, -1), "o", FALSE, TRUE),
    Mode(<<Tag("r", 32)>>, Op(FALSE, <<64>>, TRUE, -1), "o", FALSE, TRUE) >>

jmp_modes == <<
    Mode(<<Tag("rel", 8)>>, Op(FALSE, <<235>>, FALSE, -1), "i", TRUE, TRUE),
    Mode(<<Tag("rel", 16)>>, Op(FALSE, <<233>>, FALSE, -1), "i", FALSE, TRUE),
    Mode(<<Tag("rel", 32)>>, Op(FALSE, <<233>>, FALSE, -1), "i", TRUE, TRUE),
    Mode(<<Tag("r/m", 16)>>, Op(FALSE, <<255>>, FALSE, 4), "m", FALSE, TRUE),
    Mode(<<Tag("r/m", 32)>>, Op(FALSE, <<255>>, FALSE, 4), "m", FALSE, TRUE),
    Mode(<<Tag("r/m", 64)>>, Op(FALSE, <<255>>, FALSE, 4), "m", TRUE, FALSE) >>

mov_modes == <<
    Mode(<<Tag("r/m", 8), Tag("r", 8)>>, Op(FALSE, <<136>>, FALSE, -1), "mr", TRUE, TRUE),
    Mode(<<Tag("r/m", 16), Tag("r", 16)>>, Op(FALSE, <<137>>, FALSE, -1), "mr", TRUE, TRUE),
    Mode(<<Tag("r/m", 32), Tag("r", 32)>>, Op(FALSE, <<137>>, FALSE, -1), "mr", TRUE, TRUE),
    Mode(<<Tag("r/m", 64), Tag("r", 64)>>, Op(TRUE, <<137>>, FALSE, -1), "mr", TRUE, FALSE),
    Mode(<<Tag("r", 8), Tag("r/m", 8)>>, Op(FALSE, <<138>>, FALSE, -1), "rm", TRUE, TRUE),
    Mode(<<Tag("r", 16), Tag("r/m", 16)>>, Op(FALSE, <<139>>, FALSE, -1), "rm", TRUE, TRUE),
    Mode(<<Tag("r", 32), Tag("r/m", 32)>>, Op(FALSE, <<139>>, FALSE, -1), "rm", TRUE, TRUE),
    Mode(<<Tag("r", 64), Tag("r/m", 64)>>, Op(TRUE, <<139>>, FALSE, -1), "rm", TRUE, FALSE),
    Mode(<<Tag("r", 8), Tag("imm", 8)>>, Op(FALSE, <<176>>, TRUE, -1), "oi", TRUE, TRUE),
    Mode(<<Tag("r", 16), Tag("imm", 16)>>, Op(FALSE, <<184>>, TRUE, -1), "oi", TRUE, TRUE),
    Mode(<<Tag("r", 32), Tag("imm", 32)>>, Op(FALSE, <<184>>, TRUE, -1), "oi", TRUE, TRUE),
    Mode(<<Tag("r", 64), Tag("imm", 64)>>, Op(TRUE, <<184>>, TRUE, -1), "oi", TRUE, FALSE),
    Mode(<<Tag("r/m", 8), Tag("imm", 8)>>, Op(FALSE, <<198>>, FALSE, 0), "mi", TRUE, TRUE),
    Mode(<<Tag("r/m", 16), Tag("imm", 16)>>, Op(FALSE, <<199>>, FALSE, 0), "mi", TRUE, TRUE),
    Mode(<<Tag("r/m", 32), Tag("imm", 32)>>, Op(FALSE, <<199>>, FALSE, 0), "mi", TRUE, TRUE),
    Mode(<<Tag("r/m", 64), Tag("imm", 32)>>, Op(TRUE, <<199>>, FALSE, 0), "mi", TRUE, FALSE) >>

\* the modes of a conditional jump with the given two-byte opcode
_jcc(opcode) == <<
    Mode(<<Tag("rel", 8)>>, Op(FALSE, opcode, FALSE, -1), "i", TRUE, TRUE),
    Mode(<<Tag("rel", 16)>>, Op(FALSE, opcode, FALSE, -1), "i", FALSE, TRUE),
    Mode(<<Tag("rel", 32)>>, Op(FALSE, opcode, FALSE, -1), "i", TRUE, TRUE) >>

\* operand_enc[key]: where each operand goes ("opcode" stands for
\* 'opcode +rd ...', "rm" for 'ModRM:r/m ...', "reg" for 'ModRM:reg ...',
\* "imm" for 'imm...')
operand_enc(key) ==
    CASE key = "m"  -> <<"rm">>
      [] key = "o"  -> <<"opcode">>
      [] key = "i"  -> <<"imm">>
      [] key = "oi" -> <<"opcode", "imm">>
      [] key = "mi" -> <<"rm", "imm">>
      [] key = "mr" -> <<"rm", "reg">>
      [] key = "rm" -> <<"reg", "rm">>
      [] OTHER      -> <<>>

Mnemonics == {"push", "ret", "call", "add", "inc", "jmp", "je", "mov"}
RelBranchMnemonics == {"call", "jmp", "je"}

modes_of(name) ==
    CASE name = "push" -> push_modes
      [] name = "ret"  -> ret_modes
      [] name = "call" -> call_modes
      [] name = "add"  -> add_modes
      [] name = "inc"  -> inc_modes
      [] name = "jmp"  -> jmp_modes
      [] name = "je"   -> _jcc(<<15, 132>>)
      [] name = "mov"  -> mov_modes

\* the number of operands the class's __init__ takes; -1 for a class that
\* inherits Instruction.__init__(self, *args)
init_arity(name) ==
    CASE name \in {"push", "inc", "call", "jmp", "je"} -> 1
      [] name \in {"add", "mov"} -> 2
      [] name = "ret" -> -1

-----------------------------------------------------------------------------
(* Instruction (instruction.py).  None is <<>> and a set cache is <<v>>.   *)

\* an exception with the pieces of its message
Raise(class, text, name, sig) ==
    [err |-> class, msg |-> [text |-> text, name |-> name, sig |-> sig]]

\* Instruction.__init__ / RelBranchInstruction.__init__
Instruction(name, args) ==
    [name |-> name, args |-> args, _label |-> <<>>,
     _sig |-> <<>>, _clean_args |-> <<>>, _use_sig |-> <<>>, _mode |-> <<>>,
     _prefixes |-> <<>>, _rex_byte |-> <<>>, _opcode |-> <<>>, _operands |-> <<>>,
     _code |-> <<>>]

\* no instruction object
NoInst == Instruction("", <<>>)

\* read_signature giving the 'u' hint to every positive integer whose
\* unsigned width is not larger than its signed width
arg_tag_hint_always(arg) ==
    CASE arg.t = "reg" ->
            IF check_arch_raises(arg.reg)
            THEN [err |-> "TypeError", text |-> "Register not supported on 32 bit arch.",
                  tag |-> Tag("", 0)]
            ELSE [err |-> "", text |-> "", tag |-> Tag("r", arg.reg.bits)]
      [] arg.t = "int" ->
            LET bits == pack_int_bits(arg.w)
                ubits == pack_uint_bits(arg.w)
            IN  IF bits = 0
                THEN [err |-> "struct.error", text |-> "", tag |-> Tag("", 0)]
                ELSE IF WIsPositive(arg.w) /\ ubits <= bits
                     THEN [err |-> "", text |-> "", tag |-> TagU("imm", bits)]
                     ELSE [err |-> "", text |-> "", tag |-> Tag("imm", bits)]
      [] arg.t = "ptr" ->
            IF Pointer_check_arch_raises(arg.ptr)
            THEN [err |-> "TypeError", text |-> "Register not supported on 32 bit arch.",
                  tag |-> Tag("", 0)]
            ELSE [err |-> "", text |-> "",
                  tag |-> Tag("m", IF arg.ptr._bits = <<>> THEN 0 ELSE arg.ptr._bits[1])]
      [] arg.t \in {"str", "bytes"} ->
            IF Len(arg.data) \in {1, 2, 4, 8}
            THEN [err |-> "", text |-> "", tag |-> Tag("imm", 8 * Len(arg.data))]
            ELSE [err |-> "TypeError", text |-> "Invalid immediate operand length",
                  tag |-> Tag("", 0)]

\* the tag read_signature gives one argument, or the exception it raises
arg_tag(arg) ==
    CASE arg.t = "reg" ->
            IF check_arch_raises(arg.reg)
            THEN [err |-> "TypeError", text |-> "Register not supported on 32 bit arch.",
                  tag |-> Tag("", 0)]
            ELSE [err |-> "", text |-> "", tag |-> Tag("r", arg.reg.bits)]
      [] arg.t = "int" ->
            LET bits == pack_int_bits(arg.w)
                ubits == pack_uint_bits(arg.w)
            IN  IF bits = 0
                THEN [err |-> "struct.error", text |-> "", tag |-> Tag("", 0)]
                ELSE IF WIsPositive(arg.w) /\ ubits < bits
                     THEN [err |-> "", text |-> "", tag |-> TagU("imm", bits)]
                     ELSE [err |-> "", text |-> "", tag |-> Tag("imm", bits)]
      [] arg.t = "ptr" ->
            IF Pointer_check_arch_raises(arg.ptr)
            THEN [err |-> "TypeError", text |-> "Register not supported on 32 bit arch.",
                  tag |-> Tag("", 0)]
            ELSE [err |-> "", text |-> "",
                  tag |-> Tag("m", IF arg.ptr._bits = <<>> THEN 0 ELSE arg.ptr._bits[1])]
      [] arg.t \in {"str", "bytes"} ->
            IF Len(arg.data) \in {1, 2, 4, 8}
            THEN [err |-> "", text |-> "", tag |-> Tag("imm", 8 * Len(arg.data))]
            ELSE [err |-> "TypeError", text |-> "Invalid immediate operand length",
                  tag |-> Tag("", 0)]

\* the loop of Instruction.read_signature, tags holding what each argument
\* gives: the first argument that raises ends it
read_tags(self, tags) ==
    IF \E k \in 1..Len(tags) : tags[k].err # ""
    THEN LET k == CHOOSE k \in 1..Len(tags) :
                      tags[k].err # "" /\ \A j \in 1..(k - 1) : tags[j].err = ""
         IN  [exc |-> Raise(tags[k].err, tags[k].text, "", <<>>), self |-> self]
    ELSE [exc |-> Raise("", "", "", <<>>),
          self |-> [self EXCEPT !._sig = <<[k \in 1..Len(tags) |-> tags[k].tag]>>,
                                !._clean_args = <<self.args>>]]

\* Instruction.read_signature
Instruction_read_signature(self) ==
    read_tags(self, [k \in 1..Len(self.args) |-> arg_tag(self.args[k])])

\* RelBranchInstruction.read_signature
RelBranchInstruction_read_signature(self) ==
    IF Len(self.args) = 1 /\ self.args[1].t \in {"int", "str"}
    THEN [exc |-> Raise("", "", "", <<>>),
          self |-> [self EXCEPT !._label = <<self.args[1]>>,
                                !._sig = << <<Tag("rel", 32)>> >>,
                                !._clean_args = << <<BytesArg(<<0, 0, 0, 0>>)>> >>]]
    ELSE Instruction_read_signature(self)

read_signature(self) ==
    IF self.name \in RelBranchMnemonics
    THEN RelBranchInstruction_read_signature(self)
    ELSE Instruction_read_signature(self)

\* Instruction.check_mode with an immediate that fits only as unsigned
\* accepted like one that fits as signed
check_mode_unsigned(sig, mode) ==
    CASE mode.ty = "r" ->
            IF sig.ty = "r" /\ mode.bits = sig.bits THEN "True" ELSE "False"
      [] mode.ty = "r/m" ->
            IF sig.ty \in {"r", "m"} /\ (sig.bits = 0 \/ mode.bits = sig.bits)
            THEN "True" ELSE "False"
      [] mode.ty = "imm" ->
            IF sig.ty # "imm" THEN "False"
            ELSE IF mode.bits >= sig.bits THEN "True"
            ELSE IF sig.u /\ mode.bits >= sig.bits \div 2 THEN "True"
            ELSE "False"
      [] mode.ty = "rel" ->
            IF sig.ty = "rel" THEN "True" ELSE "False"
      [] mode.ty = "m" ->
            IF sig.ty # "m" THEN "False"
            ELSE IF mode.bits > 0 /\ sig.bits > 0 /\ mode.bits # sig.bits THEN "False"
            ELSE "True"

\* Instruction.check_mode: "True", "False", or "0" (encodable, not preferred)
check_mode(sig, mode) ==
    CASE mode.ty = "r" ->
            IF sig.ty = "r" /\ mode.bits = sig.bits THEN "True" ELSE "False"
      [] mode.ty = "r/m" ->
            IF sig.ty \in {"r", "m"} /\ (sig.bits = 0 \/ mode.bits = sig.bits)
            THEN "True" ELSE "False"
      [] mode.ty = "imm" ->
            IF sig.ty # "imm" THEN "False"
            ELSE IF mode.bits >= sig.bits THEN "True"
            ELSE IF sig.u /\ mode.bits >= sig.bits \div 2 THEN "0"
            ELSE "False"
      [] mode.ty = "rel" ->
            IF sig.ty = "rel" THEN "True" ELSE "False"
      [] mode.ty = "m" ->
            IF sig.ty # "m" THEN "False"
            ELSE IF mode.bits > 0 /\ sig.bits > 0 /\ mode.bits # sig.bits THEN "False"
            ELSE "True"

\* the value of usemode when a mode that is encodable but not preferred
\* counts as a hit
usemode_of_any(sig, mode) ==
    IF \E i \in 1..Len(mode) : check_mode(sig[i], mode[i]) = "False" THEN "False"
    ELSE "True"

\* the value of usemode after the inner loop over the operands of one mode
usemode_of(sig, mode) ==
    IF \E i \in 1..Len(mode) : check_mode(sig[i], mode[i]) = "False" THEN "False"
    ELSE IF \E i \in 1..Len(mode) : check_mode(sig[i], mode[i]) = "0" THEN "0"
    ELSE "True"

\* the modes the filter keeps, with every mode kept whatever ARCH is
allowed_modes_unfiltered(modes) == modes

\* the modes the filter of select_instruction_mode keeps on this ARCH
allowed_modes(modes) ==
    SelectSeq(modes, LAMBDA m : IF ARCH = 64 THEN m.a64 ELSE m.a32)

\* the loop of select_instruction_mode from mode k on; backup is the index
\* of the backup mode (0: none).  Gives the index selected, 0 for none.
RECURSIVE select_loop(_, _, _, _)
select_loop(modes, sig, k, backup) ==
    IF k > Len(modes) THEN backup
    ELSE IF Len(modes[k].sig) # Len(sig) THEN select_loop(modes, sig, k + 1, backup)
    ELSE LET usemode == usemode_of(sig, modes[k].sig)
         IN  IF usemode = "True" THEN k
             ELSE IF usemode = "0" /\ backup = 0 THEN select_loop(modes, sig, k + 1, k)
             ELSE select_loop(modes, sig, k + 1, backup)

\* the selection among the modes the filter kept: an exact match, else the
\* loop; no mode is the TypeError
select_among(self, modes) ==
    LET sig == self._sig[1]
        exact == {k \in 1..Len(modes) : modes[k].sig = sig}
        k == IF exact # {} THEN CHOOSE e \in exact : TRUE
             ELSE select_loop(modes, sig, 1, 0)
    IN  IF k = 0
        THEN [exc |-> Raise("TypeError", "Argument types not accepted for instruction",
                            self.name, sig),
              self |-> self]
        ELSE [exc |-> Raise("", "", "", <<>>),
              self |-> [self EXCEPT !._use_sig = <<modes[k].sig>>, !._mode = <<modes[k]>>]]

\* Instruction.select_instruction_mode, once self._sig is set
select_instruction_mode(self) == select_among(self, allowed_modes(modes_of(self.name)))

\* the rex constants of pointer.py, as the encoder ORs them into a byte
rex_w == 72
rex_r == 68
rex_b == 65

rex_x == 66

\* what modrm_sib gives: (rex, code), or the exception it raises
Encoded(rex, code) == [err |-> "", rex |-> rex, code |-> code]
EncodeError(e) == [err |-> e, rex |-> 0, code |-> <<>>]

\* a ModR/M or SIB field: three bits, and the bit the REX byte carries
RegField(r) == [val |-> Register_val(r), rex |-> Register_rex(r)]
ExtField(n) == [val |-> n, rex |-> FALSE]

\* mod_vals
mod_ind == 0
mod_ind8 == 64
mod_ind32 == 128
mod_dir == 192

\* the r/m values 'sib' and 'disp' stand for
rm_sib == ExtField(4)
rm_disp == ExtField(5)

\* mod_reg_rm with every field moved into the R or B bit
mod_reg_rm_b(mod, reg, rm) ==
    Encoded(BitOr(IF reg.rex THEN rex_b ELSE 0, IF rm.rex THEN rex_b ELSE 0),
            <<mod + 8 * reg.val + rm.val>>)

\* mod_reg_rm(mod, reg, rm): reg and rm are fields
mod_reg_rm(mod, reg, rm) ==
    Encoded(BitOr(IF reg.rex THEN rex_r ELSE 0, IF rm.rex THEN rex_b ELSE 0),
            <<mod + 8 * reg.val + rm.val>>)

\* mk_sib(byts, offset, base): offset is None (<<>>) or a register, base
\* is 'disp' (<<>>) or a register
mk_sib(byts, offset, base) ==
    IF (offset # <<>> /\ offset[1].bits < 32) \/ (base # <<>> /\ base[1].bits < 32)
    THEN EncodeError("Exception")
    ELSE Encoded(BitOr(IF offset # <<>> /\ Register_rex(offset[1]) THEN rex_x ELSE 0,
                       IF base # <<>> /\ Register_rex(base[1]) THEN rex_b ELSE 0),
                 <<64 * byts + 8 * (IF offset = <<>> THEN 4 ELSE Register_val(offset[1]))
                     + (IF base = <<>> THEN 5 ELSE Register_val(base[1]))>>)

\* mrex|srex, modrm + sib + disp
with_sib(m, sib, disp) ==
    IF sib.err # "" THEN sib
    ELSE Encoded(BitOr(m.rex, sib.rex), m.code \o sib.code \o disp)

\* pack_int without the 8-bit format
pack_disp_wide(w) ==
    IF FitsSigned(w, 32) THEN Ok(WBytes(w, 32))
    ELSE IF FitsUnsigned(w, 32) THEN Ok(WBytes(w, 32))
    ELSE Err("struct.error")

\* pack_int(x, try_uint=True, int8=True, int16=False, int32=True, int64=False)
pack_disp(w) ==
    IF FitsSigned(w, 8) THEN Ok(WBytes(w, 8))
    ELSE IF FitsSigned(w, 32) THEN Ok(WBytes(w, 32))
    ELSE IF FitsUnsigned(w, 8) THEN Ok(WBytes(w, 8))
    ELSE IF FitsUnsigned(w, 32) THEN Ok(WBytes(w, 32))
    ELSE Err("struct.error")

\* pack_int(x, try_uint=True, int8=..., int16=True, int32=False, int64=False)
pack_disp16(w, int8) ==
    IF int8 /\ FitsSigned(w, 8) THEN Ok(WBytes(w, 8))
    ELSE IF FitsSigned(w, 16) THEN Ok(WBytes(w, 16))
    ELSE IF int8 /\ FitsUnsigned(w, 8) THEN Ok(WBytes(w, 8))
    ELSE IF FitsUnsigned(w, 16) THEN Ok(WBytes(w, 16))
    ELSE Err("struct.error")

\* regs in (sp, esp, rsp)
is_sp(r) == r.name \in {"sp", "esp", "rsp"}

\* rm_vals of modrm16, regs sorted by name; -1: regs is not a key
rm_vals16(regs) ==
    LET names == {regs[k].name : k \in 1..Len(regs)}
    IN  CASE Len(regs) = 2 /\ names = {"bx", "si"} -> 0
          [] Len(regs) = 2 /\ names = {"bx", "di"} -> 1
          [] Len(regs) = 2 /\ names = {"bp", "si"} -> 2
          [] Len(regs) = 2 /\ names = {"bp", "di"} -> 3
          [] Len(regs) = 1 /\ names = {"si"} -> 4
          [] Len(regs) = 1 /\ names = {"di"} -> 5
          [] Len(regs) = 1 /\ names = {"bp"} -> 6
          [] Len(regs) = 1 /\ names = {"bx"} -> 7
          [] Len(regs) = 0 -> 6
          [] OTHER -> -1

\* the end of modrm16: the byte and the displacement d packed; mod is
\* 'ind' without a register, else it follows the length of d
modrm16_with(noregs, reg, rm, d) ==
    IF d.err # "" THEN EncodeError(d.err)
    ELSE Encoded(0, <<(IF noregs THEN mod_ind ELSE IF Len(d.val) = 1 THEN mod_ind8
                       ELSE mod_ind32) + 8 * reg.val + rm>> \o d.val)

\* Pointer.modrm16
Pointer_modrm16(self, reg) ==
    IF self.scale # <<>> /\ self.scale[1] # 0 THEN EncodeError("TypeError")
    ELSE IF rm_vals16(Pointer_regs(self)) = -1 THEN EncodeError("TypeError")
    ELSE IF self.disp = <<>> \/ self.disp = <<WInt(0)>>
    THEN IF Len(Pointer_regs(self)) = 1 /\ Pointer_regs(self)[1].name = "bp"
         THEN Encoded(0, <<mod_ind8 + 8 * reg.val + rm_vals16(Pointer_regs(self)), 0>>)
         ELSE Encoded(0, <<mod_ind + 8 * reg.val + rm_vals16(Pointer_regs(self))>>)
    ELSE IF Pointer_regs(self) = <<>>
    THEN modrm16_with(TRUE, reg, rm_vals16(Pointer_regs(self)),
                      pack_disp16(self.disp[1], FALSE))
    ELSE modrm16_with(FALSE, reg, rm_vals16(Pointer_regs(self)),
                      pack_disp16(self.disp[1], TRUE))

\* modrm_sib without a scale and without a register: [disp]
encode_disp_only(self, reg) ==
    IF self.disp = <<>> THEN EncodeError("TypeError")
    ELSE IF pack_signed(self.disp[1], 32).err # "" THEN EncodeError("struct.error")
    ELSE IF ARCH = 32
    THEN Encoded(mod_reg_rm(mod_ind, reg, rm_disp).rex,
                 mod_reg_rm(mod_ind, reg, rm_disp).code \o pack_signed(self.disp[1], 32).val)
    ELSE with_sib(mod_reg_rm(mod_ind, reg, rm_sib), mk_sib(0, <<>>, <<>>),
                  pack_signed(self.disp[1], 32).val)

\* modrm_sib without a scale, one register r, with *bp encoded like any
\* other register
encode_one_plain(r, reg, mod, disp) ==
    IF Register_val(r) = 4
    THEN with_sib(mod_reg_rm(mod, reg, rm_sib), mk_sib(0, <<rsp>>, <<r>>), disp)
    ELSE Encoded(mod_reg_rm(mod, reg, RegField(r)).rex,
                 mod_reg_rm(mod, reg, RegField(r)).code \o disp)

\* modrm_sib without a scale, one register r
encode_one(r, reg, mod, disp) ==
    IF Register_val(r) = 4
    THEN with_sib(mod_reg_rm(mod, reg, rm_sib), mk_sib(0, <<rsp>>, <<r>>), disp)
    ELSE IF Register_val(r) = 5 /\ disp = <<>>
    THEN Encoded(mod_reg_rm(mod_ind8, reg, RegField(r)).rex,
                 mod_reg_rm(mod_ind8, reg, RegField(r)).code \o <<0>>)
    ELSE Encoded(mod_reg_rm(mod, reg, RegField(r)).rex,
                 mod_reg_rm(mod, reg, RegField(r)).code \o disp)

\* modrm_sib without a scale, two registers: regs.reverse() makes reg2 the
\* index and reg1 the base, unless reg2 is a stack pointer
encode_two(reg1, reg2, reg, mod, disp) ==
    IF is_sp(reg2)
    THEN IF is_sp(reg1) THEN EncodeError("TypeError")
         ELSE with_sib(mod_reg_rm(mod, reg, rm_sib), mk_sib(0, <<reg1>>, <<reg2>>), disp)
    ELSE IF Register_val(reg1) = 5 /\ disp = <<>>
    THEN with_sib(mod_reg_rm(mod_ind8, reg, rm_sib), mk_sib(0, <<reg2>>, <<reg1>>), <<0>>)
    ELSE with_sib(mod_reg_rm(mod, reg, rm_sib), mk_sib(0, <<reg2>>, <<reg1>>), disp)

\* modrm_sib with a scale and a stack pointer accepted as the index
encode_scaled_sp(self, reg, mod, disp) ==
    IF self.reg1 = <<>> THEN EncodeError("TypeError")
    ELSE with_sib(mod_reg_rm(mod, reg, rm_sib),
                  mk_sib(CASE self.scale[1] = 1 -> 0 [] self.scale[1] = 2 -> 1
                           [] self.scale[1] = 4 -> 2 [] self.scale[1] = 8 -> 3,
                         self.reg1, IF self.reg2 = <<>> THEN <<rbp>> ELSE self.reg2),
                  disp)

\* modrm_sib with a scale: reg1 is the index, reg2 the base
encode_scaled(self, reg, mod, disp) ==
    IF self.reg1 = <<>> THEN EncodeError("TypeError")
    ELSE IF Register_val(self.reg1[1]) = 4 /\ ~Register_rex(self.reg1[1])
    THEN EncodeError("TypeError")
    ELSE IF self.reg2 = <<>>
    THEN with_sib(mod_reg_rm(mod_ind, reg, rm_sib),
                  mk_sib(CASE self.scale[1] = 1 -> 0 [] self.scale[1] = 2 -> 1
                           [] self.scale[1] = 4 -> 2 [] self.scale[1] = 8 -> 3,
                         self.reg1, <<rbp>>),
                  disp \o [k \in 1..(4 - Len(disp)) |-> 0])
    ELSE IF Register_val(self.reg2[1]) = 5 /\ disp = <<>>
    THEN with_sib(mod_reg_rm(mod_ind8, reg, rm_sib),
                  mk_sib(CASE self.scale[1] = 1 -> 0 [] self.scale[1] = 2 -> 1
                           [] self.scale[1] = 4 -> 2 [] self.scale[1] = 8 -> 3,
                         self.reg1, self.reg2),
                  <<0>>)
    ELSE with_sib(mod_reg_rm(mod, reg, rm_sib),
                  mk_sib(CASE self.scale[1] = 1 -> 0 [] self.scale[1] = 2 -> 1
                           [] self.scale[1] = 4 -> 2 [] self.scale[1] = 8 -> 3,
                         self.reg1, self.reg2),
                  disp)

\* modrm_sib once the displacement is packed
encode_address(self, reg, mod, disp) ==
    IF self.scale = <<>> \/ self.scale = <<0>>
    THEN CASE Len(Pointer_regs(self)) = 0 -> encode_disp_only(self, reg)
           [] Len(Pointer_regs(self)) = 1 ->
                  encode_one(Pointer_regs(self)[1], reg, mod, disp)
           [] Len(Pointer_regs(self)) = 2 ->
                  encode_two(self.reg1[1], self.reg2[1], reg, mod, disp)
    ELSE encode_scaled(self, reg, mod, disp)

\* modrm_sib from the displacement parsing on; d is what pack_int gave
encode_packed(self, reg, d) ==
    IF d.err # "" THEN EncodeError(d.err)
    ELSE encode_address(self, reg,
                        IF Len(d.val) = 0 THEN mod_ind
                        ELSE IF Len(d.val) = 1 THEN mod_ind8 ELSE mod_ind32,
                        d.val)

\* Pointer.modrm_sib(reg)
Pointer_modrm_sib(self, reg) ==
    IF \E k \in 1..Len(Pointer_regs(self)) : Pointer_regs(self)[k].bits < ARCH \div 2
    THEN EncodeError("TypeError")
    ELSE IF Len(Pointer_regs(self)) = 2 /\ self.reg1[1].bits # self.reg2[1].bits
    THEN EncodeError("TypeError")
    ELSE IF \E k \in 1..Len(Pointer_regs(self)) : Pointer_regs(self)[k].bits = 16
    THEN Pointer_modrm16(self, reg)
    ELSE encode_packed(self, reg,
                       IF self.disp = <<>> \/ self.disp = <<WInt(0)>> THEN Ok(<<>>)
                       ELSE pack_disp(self.disp[1]))

\* prefixes.append(b'\x66') unless it is there
with_66(prefixes, bits) ==
    IF bits = 16 /\ ~(\E k \in 1..Len(prefixes) : prefixes[k] = 102)
    THEN Append(prefixes, 102) ELSE prefixes

\* arg.bits of a Register or a Pointer (0: None)
arg_bits(arg) ==
    IF arg.t = "reg" THEN arg.reg.bits
    ELSE IF arg.ptr._bits = <<>> THEN 0 ELSE arg.ptr._bits[1]

\* prefixes.append(arg.prefix) for a Pointer whose prefix is not empty
with_67(prefixes, arg) ==
    IF arg.t = "ptr" THEN prefixes \o Pointer_prefix(arg.ptr) ELSE prefixes

\* the 'imm' branch of parse_operands for one argument
parse_imm(arg, immsize) ==
    IF arg.t = "int"
    THEN LET signed == pack_signed(arg.w, immsize)
         IN  IF signed.err = "" THEN signed ELSE pack_unsigned(arg.w, immsize)
    ELSE IF 8 * Len(arg.data) > immsize THEN Err("AssertionError")
    ELSE IF arg.t = "str" THEN Err("TypeError")
    ELSE Ok(arg.data \o [k \in 1..((immsize - 8 * Len(arg.data)) \div 8) |-> 0])

\* the loop of parse_operands from argument i on
RECURSIVE parse_operands_from(_, _, _)
parse_operands_from(self, i, st) ==
    IF i > Len(self._clean_args[1]) THEN st
    ELSE LET arg == self._clean_args[1][i]
             enc == operand_enc(self._mode[1].enc)[i]
         IN  CASE enc = "opcode" ->
                    parse_operands_from(self, i + 1,
                        [st EXCEPT !.opcode_reg = <<Register_val(arg.reg)>>,
                                   !.rex_byt = IF Register_rex(arg.reg)
                                               THEN BitOr(@, rex_b) ELSE @,
                                   !.prefixes = with_66(@, arg.reg.bits)])
               [] enc = "rm" ->
                    parse_operands_from(self, i + 1,
                        [st EXCEPT !.rm = <<arg>>,
                                   !.prefixes = with_67(with_66(@, arg_bits(arg)), arg)])
               [] enc = "reg" ->
                    parse_operands_from(self, i + 1,
                        [st EXCEPT !.reg = <<arg.reg>>,
                                   !.prefixes = with_66(@, arg.reg.bits)])
               [] enc = "imm" ->
                    LET imm == parse_imm(arg, self._use_sig[1][i].bits)
                    IN  IF imm.err # "" THEN [st EXCEPT !.err = imm.err]
                        ELSE parse_operands_from(self, i + 1,
                                                 [st EXCEPT !.imm = <<imm.val>>])

\* the prefixes in the order the operands appended them
sort_none(prefixes) == prefixes

\* prefixes.sort(reverse=True)
RECURSIVE sort_reverse(_)
sort_reverse(prefixes) ==
    IF prefixes = <<>> THEN <<>>
    ELSE LET k == CHOOSE k \in 1..Len(prefixes) :
                      \A j \in 1..Len(prefixes) : prefixes[j] <= prefixes[k]
         IN  <<prefixes[k]>> \o
             sort_reverse(SubSeq(prefixes, 1, k - 1) \o SubSeq(prefixes, k + 1, Len(prefixes)))

\* Instruction.parse_operands
parse_operands(self) ==
    LET st == parse_operands_from(self, 1,
                  [err |-> "", prefixes |-> <<>>, rex_byt |-> 0, opcode_reg |-> <<>>,
                   reg |-> <<>>, rm |-> <<>>, imm |-> <<>>])
    IN  [st EXCEPT !.prefixes = sort_reverse(@)]

\* ModRmSib(a, b): a is a register (<<r>>) or the opcode extension ext, b
\* the r/m argument.  A register in b is addressed directly (mod = 11), a
\* Pointer encodes itself.
ModRmSib(a, ext, b) ==
    IF b.t = "reg"
    THEN mod_reg_rm(mod_dir, IF a # <<>> THEN RegField(a[1]) ELSE ExtField(ext),
                    RegField(b.reg))
    ELSE Pointer_modrm_sib(b.ptr, IF a # <<>> THEN RegField(a[1]) ELSE ExtField(ext))

\* rex_byt |= rex.w for a 'REX.W +' template; 0 is no REX byte
rex_byte_of(rexw, rex_byt) ==
    IF rexw THEN <<BitOr(rex_byt, rex_w)>>
    ELSE IF rex_byt = 0 THEN <<>> ELSE <<rex_byt>>

\* the end of generate_instruction_parts; rm tells whether there is a
\* ModR/M operand and modrm is what ModRmSib gave for it
encode_parts(self, po, rm, modrm) ==
    IF rm /\ modrm.err # "" THEN [exc |-> Raise(modrm.err, "", "", <<>>), self |-> self]
    ELSE [exc |-> Raise("", "", "", <<>>),
          self |-> [self EXCEPT
              !._prefixes = <<po.prefixes>>,
              !._rex_byte = <<rex_byte_of(self._mode[1].op.rexw,
                                          IF rm THEN BitOr(po.rex_byt, modrm.rex)
                                          ELSE po.rex_byt)>>,
              !._opcode = <<IF po.opcode_reg = <<>> THEN self._mode[1].op.bytes
                            ELSE [self._mode[1].op.bytes
                                    EXCEPT ![Len(self._mode[1].op.bytes)] =
                                               BitOr(@, po.opcode_reg[1])]>>,
              !._operands = <<(IF rm THEN <<modrm.code>> ELSE <<>>)
                                 \o (IF po.imm # <<>> THEN <<po.imm[1]>> ELSE <<>>)>>]]

\* generate_instruction_parts after its call of parse_operands, which gave po
assemble_parts(self, po) ==
    IF po.err # "" THEN [exc |-> Raise(po.err, "", "", <<>>), self |-> self]
    ELSE IF po.reg # <<>> /\ self._mode[1].op.ext # -1
    THEN [exc |-> Raise("RuntimeError", "Cannot encode both register and opcode extension in ModR/M.", "", <<>>),
          self |-> self]
    ELSE encode_parts(self, po, po.rm # <<>>,
                      IF po.rm = <<>> THEN Encoded(0, <<>>)
                      ELSE ModRmSib(po.reg, self._mode[1].op.ext, po.rm[1]))

\* Instruction.generate_instruction_parts, once self._mode is set
generate_instruction_parts(self) == assemble_parts(self, parse_operands(self))

\* b''.join(parts)
RECURSIVE join(_)
join(parts) == IF parts = <<>> THEN <<>> ELSE Head(parts) \o join(Tail(parts))

\* The value of an instruction's code: plain bytes (replacements empty,
\* isCode FALSE) or a Code object.
Bytes(code) == [isCode |-> FALSE, code |-> code, replacements |-> <<>>]
AsCode(c) == [isCode |-> TRUE, code |-> c.code, replacements |-> c.replacements]

\* Instruction.generate_code, once the parts are set
Instruction_generate_code(self) ==
    [exc |-> Raise("", "", "", <<>>),
     self |-> [self EXCEPT !._code =
        <<Bytes(self._prefixes[1] \o self._rex_byte[1] \o self._opcode[1]
                    \o join(self._operands[1]))>>]]

\* the displacement written for an integer target: the target itself
int_offset_unadjusted(label, len) == label

\* the displacement written for an integer target: self._label - len(code)
int_offset(label, len) == WAdd(label, 0 - len)

\* fill expressions other than the one the encoder writes
branch_expr_instr(label) == Expr(label, "instr_addr", 0)
branch_expr_absolute(label) == Expr(label, "", 0)

\* "%s - next_instr_addr" % self._label
branch_expr(label) == Expr(label, "next_instr_addr", 0)

\* RelBranchInstruction.generate_code, once the parts are set
RelBranchInstruction_generate_code(self) ==
    IF self._label = <<>> THEN Instruction_generate_code(self)
    ELSE LET head == self._prefixes[1] \o self._rex_byte[1] \o self._opcode[1]
             operands == self._operands[1]
             use_sig == self._use_sig[1]
             rels == {i \in 1..Len(operands) : use_sig[i].ty = "rel"}
             last == CHOOSE i \in rels : \A j \in rels : j <= i
             addr_offset == Len(head \o join(SubSeq(operands, 1, last - 1)))
             op_size == Len(operands[last])
             code == head \o join(operands)
             label == self._label[1]
         IN  IF rels = {}
             THEN [exc |-> Raise("RuntimeError", "No 'rel' operand in signature; cannot apply label.", "", <<>>),
                   self |-> self]
             ELSE IF op_size \notin {1, 2, 4}
             THEN [exc |-> Raise("KeyError", "", "", <<>>), self |-> self]
             ELSE IF label.t = "str"
             THEN [exc |-> Raise("", "", "", <<>>),
                   self |-> [self EXCEPT !._code =
                       <<AsCode(Code_replace(Code(code), addr_offset,
                                             branch_expr(label.s),
                                             CASE op_size = 1 -> "b" [] op_size = 2 -> "h"
                                               [] op_size = 4 -> "i"))>>]]
             ELSE LET offset == pack_signed(int_offset(label.w, Len(code)), 8 * op_size)
                  IN  IF offset.err # ""
                      THEN [exc |-> Raise(offset.err, "", "", <<>>), self |-> self]
                      ELSE [exc |-> Raise("", "", "", <<>>),
                            self |-> [self EXCEPT !._code =
                                <<Bytes(Take(code, addr_offset) \o offset.val
                                            \o Drop(code, addr_offset + op_size))>>]]

generate_code(self) ==
    IF self.name \in RelBranchMnemonics
    THEN RelBranchInstruction_generate_code(self)
    ELSE Instruction_generate_code(self)

\* The chain of lazy properties behind Instruction.code: each step runs
\* only when its cache is None, and an exception leaves the later caches
\* unset.
Instruction_sig(self) ==
    IF self._sig = <<>> THEN read_signature(self)
    ELSE [exc |-> Raise("", "", "", <<>>), self |-> self]

\* the property mode, r being what reading sig gave
Instruction_mode(r) ==
    IF r.exc.err # "" THEN r
    ELSE IF r.self._mode = <<>> THEN select_instruction_mode(r.self) ELSE r

\* the properties prefixes, rex_byte, opcode and operands, r being what
\* reading mode gave
Instruction_parts(r) ==
    IF r.exc.err # "" THEN r
    ELSE IF r.self._prefixes = <<>> THEN generate_instruction_parts(r.self) ELSE r

\* the property code, r being what reading the parts gave
Instruction_generated(r) ==
    IF r.exc.err # "" THEN r
    ELSE IF r.self._code = <<>> THEN generate_code(r.self) ELSE r

Instruction_code(self) ==
    Instruction_generated(Instruction_parts(Instruction_mode(Instruction_sig(self))))

\* len(instruction)
Instruction_len(self) == Len(Instruction_code(self).self._code[1].code)

-----------------------------------------------------------------------------
(* CodePage (codepage.py)                                                  *)

\* The entries of a program: label markers, instructions, raw byte strings
\* and Code objects.
LabelEntry(name) == [k |-> "label", name |-> name, inst |-> NoInst, code |-> Bytes(<<>>)]
InstEntry(i) == [k |-> "inst", name |-> "", inst |-> i, code |-> Bytes(<<>>)]
BytesEntry(b) == [k |-> "bytes", name |-> "", inst |-> NoInst, code |-> Bytes(b)]
CodeEntry(c) == [k |-> "code", name |-> "", inst |-> NoInst, code |-> AsCode(c)]

\* a marker that takes up one byte
Label_len_one(self) == 1

\* Label.__len__
Label_len(self) == 0

\* a dict with key bound to v
dict_set(d, key, v) == [n \in DOMAIN d \cup {key} |-> IF n = key THEN v ELSE d[n]]

EmptyDict == [n \in {} |-> 0]

\* CodePage.__len__: sum(map(len, self.asm)).  len() of an instruction
\* reads its code, which fills the caches of the object in the list; an
\* exception ends the sum.
RECURSIVE CodePage_len(_, _, _)
\* the sum from instruction k on, r being what reading its code gave
len_from_inst(asm_, k, n, r) ==
    IF r.exc.err # ""
    THEN [exc |-> r.exc, n |-> n, asm |-> [asm_ EXCEPT ![k].inst = r.self]]
    ELSE CodePage_len([asm_ EXCEPT ![k].inst = r.self], k + 1,
                      n + Len(r.self._code[1].code))

CodePage_len(asm_, k, n) ==
    IF k > Len(asm_) THEN [exc |-> Raise("", "", "", <<>>), n |-> n, asm |-> asm_]
    ELSE LET cmd == asm_[k]
         IN  CASE cmd.k = "label" -> CodePage_len(asm_, k + 1, n + Label_len(cmd))
               [] cmd.k = "inst" -> len_from_inst(asm_, k, n, Instruction_code(cmd.inst))
               [] OTHER -> CodePage_len(asm_, k + 1, n + Len(cmd.code.code))

\* len(cmd) of an entry whose code is cached
len_cmd(cmd) ==
    CASE cmd.k = "label" -> Label_len(cmd)
      [] cmd.k = "inst" -> Len(cmd.inst._code[1].code)
      [] OTHER -> Len(cmd.code.code)

\* first loop of CodePage.compile: locate all labels
RECURSIVE label_pass(_, _, _, _)
label_pass(asm_, k, ptr, labels) ==
    IF k > Len(asm_) THEN labels
    ELSE LET ptr2 == ptr + len_cmd(asm_[k])
         IN  IF asm_[k].k = "label"
             THEN label_pass(asm_, k + 1, ptr2, dict_set(labels, asm_[k].name, ptr2))
             ELSE label_pass(asm_, k + 1, ptr2, labels)

\* symbols['next_instr_addr'] taken as the entry's own start
next_instr_addr_start(instr_addr, cmd) == instr_addr

\* symbols['next_instr_addr'] = symbols['instr_addr'] + len(cmd)
next_instr_addr(instr_addr, cmd) == instr_addr + Len(cmd.code)

\* second loop of CodePage.compile
RECURSIVE emit_pass(_, _, _, _, _)
emit_pass(asm_, k, code, symbols, page_addr) ==
    IF k > Len(asm_) THEN Ok(code)
    ELSE LET cmd == asm_[k]
             c == IF cmd.k = "inst" THEN cmd.inst._code[1] ELSE cmd.code
             instr_addr == page_addr + Len(code)
             symbols2 == dict_set(dict_set(symbols, "instr_addr", instr_addr),
                                  "next_instr_addr", next_instr_addr(instr_addr, c))
             r == Code_compile(c, symbols2)
         IN  IF cmd.k = "label" THEN emit_pass(asm_, k + 1, code, symbols, page_addr)
             ELSE IF ~c.isCode
             THEN emit_pass(asm_, k + 1, code \o c.code, symbols, page_addr)
             ELSE IF r.err # "" THEN r
             ELSE emit_pass(asm_, k + 1, code \o r.val, symbols2, page_addr)

\* CodePage.compile
CodePage_compile(asm_, page_addr) ==
    LET labels == label_pass(asm_, 1, page_addr, EmptyDict)
    IN  [labels |-> labels, code |-> emit_pass(asm_, 1, <<>>, labels, page_addr)]

\* a CodePage, or the exception its constructor raised
Page(src, page_addr, asm_, labels, code, exc) ==
    [src |-> src, page_addr |-> page_addr, asm |-> asm_, labels |-> labels,
     code |-> code, exc |-> exc]

\* CodePage.__init__ for a list of entries, the region being mapped at
\* page_addr (POSIX branch).  The second component is the list the caller
\* passed in, whose instruction objects now hold their caches.
\* the constructor raised exc
failed(src, asm_, exc) == Page(src, 0, asm_, EmptyDict, <<>>, exc)

\* the end of CodePage.__init__: c is what self.compile() gave, written into
\* a region of n bytes
write_code(src, asm_, page_addr, n, c) ==
    IF c.code.err # "" THEN failed(src, asm_, Raise(c.code.err, "", "", <<>>))
    ELSE IF Len(c.code.val) > n
    THEN failed(src, asm_, Raise("AssertionError", "", "", <<>>))
    ELSE Page(src, page_addr, asm_, c.labels, c.code.val, Raise("", "", "", <<>>))

\* CodePage.__init__ from size = len(self) on: the region is mapped and the
\* compiled code written into it
map_region(src, size, page_addr) ==
    [asm |-> size.asm,
     page |->
        IF size.exc.err # "" THEN failed(src, size.asm, size.exc)
        ELSE IF size.n = 0
        THEN failed(src, size.asm, Raise("OSError", "mmap of an empty region", "", <<>>))
        ELSE write_code(src, size.asm, page_addr, size.n,
                        CodePage_compile(size.asm, page_addr))]

CodePage_init(src, asm_, page_addr) == map_region(src, CodePage_len(asm_, 1, 0), page_addr)

\* no callable
NoFn == [page |-> 0, label |-> <<>>, addr |-> 0, err |-> ""]

\* get_function of the older draft (pycc): the label's address added to the base
get_function_draft(self, label) ==
    IF label = <<>> THEN [addr |-> self.page_addr, err |-> ""]
    ELSE IF label[1] \notin DOMAIN self.labels THEN [addr |-> 0, err |-> "KeyError"]
    ELSE [addr |-> self.page_addr + self.labels[label[1]], err |-> ""]

\* CodePage.get_function: label is <<>> (None) or <<name>>
get_function(self, label) ==
    IF label = <<>> THEN [addr |-> self.page_addr, err |-> ""]
    ELSE IF label[1] \notin DOMAIN self.labels THEN [addr |-> 0, err |-> "KeyError"]
    ELSE [addr |-> self.labels[label[1]], err |-> ""]

-----------------------------------------------------------------------------
(* parse_asm (parser.py).  A text is a sequence of lexical tokens, each a  *)
(* string: an identifier, a decimal literal, " ", ":", "#", "," or "\n".   *)
(* An identifier or literal is never directly followed by another, so the  *)
(* regular expressions of the parser see the tokens as written here.       *)

RegisterNames == {"al", "ax", "cx", "eax", "ecx", "rax", "rcx", "r8", "r9d"}

reg_named(n) ==
    CASE n = "al" -> al [] n = "ax" -> ax [] n = "cx" -> cx [] n = "eax" -> eax
      [] n = "ecx" -> ecx [] n = "rax" -> rax [] n = "rcx" -> rcx [] n = "r8" -> r8
      [] n = "r9d" -> r9d

\* tokens matching [a-zA-Z_][a-zA-Z0-9_]*
IdentTokens == Mnemonics \cup RegisterNames \cup {"a", "b", "c", "n", "move", "next", "next_instr_addr"}

\* decimal literals and the integers they denote
DecimalTokens == {"0", "7", "300"}
int_of(tok) == CASE tok = "0" -> 0 [] tok = "7" -> 7 [] tok = "300" -> 300

\* str(n) of an integer
str_of(n) == CASE n = 0 -> "0" [] n = 7 -> "7" [] n = 300 -> "300"

\* _eval_ns: every register under its name
_eval_ns == [n \in RegisterNames |-> RegArg(reg_named(n))]

\* dict.update
dict_update(d, e) == [n \in DOMAIN d \cup DOMAIN e |-> IF n \in DOMAIN e THEN e[n] ELSE d[n]]

RECURSIVE lstrip(_)
lstrip(line) == IF line # <<>> /\ Head(line) = " " THEN lstrip(Tail(line)) ELSE line

RECURSIVE rstrip(_)
rstrip(line) ==
    IF line # <<>> /\ line[Len(line)] = " " THEN rstrip(SubSeq(line, 1, Len(line) - 1))
    ELSE line

\* str.strip
strip(line) == rstrip(lstrip(line))

\* str.partition(sep)
partition(line, sep) ==
    IF \E k \in 1..Len(line) : line[k] = sep
    THEN LET k == CHOOSE k \in 1..Len(line) :
                      line[k] = sep /\ \A j \in 1..(k - 1) : line[j] # sep
         IN  <<SubSeq(line, 1, k - 1), <<sep>>, SubSeq(line, k + 1, Len(line))>>
    ELSE <<line, <<>>, <<>> >>

\* str.split(sep)
RECURSIVE split(_, _)
split(line, sep) ==
    LET p == partition(line, sep)
    IN  IF p[2] = <<>> THEN <<line>> ELSE <<p[1]>> \o split(p[3], sep)

\* a label followed by the rest of its line
line_then_label(label, rest) == rest \o label

\* clean.append(Label(label)) ... clean.append((lineno, line, origline))
label_then_line(label, rest) == label \o rest

\* an exception of parse_asm: its message gives the number of the line and
\* quotes a piece of the source, shown
RaiseAt(class, text, name, sig, lineno, shown) ==
    [err |-> class,
     msg |-> [text |-> text, name |-> name, sig |-> sig, lineno |-> lineno, shown |-> shown]]

\* first pass of parse_asm from line i on
RECURSIVE first_pass(_, _, _, _)
first_pass(lines, i, clean, eval_ns) ==
    IF i > Len(lines) THEN [exc |-> Raise("", "", "", <<>>), clean |-> clean, eval_ns |-> eval_ns]
    ELSE LET line == partition(strip(lines[i]), "#")[1]
             p == partition(line, ":")
             a == lstrip(p[1])
             label == a[1]
             rest == strip(IF p[2] = <<>> THEN p[1] ELSE p[3])
             origline == strip(lines[i])
             item == IF rest = <<>> THEN <<>>
                     ELSE <<[k |-> "line", name |-> "", lineno |-> i, line |-> rest,
                             origline |-> origline]>>
             mark == <<[k |-> "label", name |-> label, lineno |-> i, line |-> <<>>,
                        origline |-> origline]>>
         IN  IF strip(lines[i]) = <<>> THEN first_pass(lines, i + 1, clean, eval_ns)
             ELSE IF p[2] = <<>>
             THEN first_pass(lines, i + 1, clean \o item, eval_ns)
             ELSE IF a = <<>> \/ a[1] \notin IdentTokens
             THEN [exc |-> RaiseAt("SyntaxError", "Expected label name before \":\"", "",
                                   <<>>, i, origline),
                   clean |-> clean, eval_ns |-> eval_ns]
             ELSE IF label \in DOMAIN eval_ns
             THEN [exc |-> RaiseAt("NameError", "Duplicate symbol", label, <<>>, i, origline),
                   clean |-> clean, eval_ns |-> eval_ns]
             ELSE first_pass(lines, i + 1, clean \o label_then_line(mark, item),
                             dict_set(eval_ns, label, StrArg(label)))

\* eval(op, {'__builtins__': {}}, eval_ns) for an operand that is a name
\* or a decimal literal
eval_operand(op, eval_ns) ==
    IF Len(op) # 1 THEN [err |-> "SyntaxError", arg |-> IntArg(WInt(0))]
    ELSE IF op[1] \in DecimalTokens THEN [err |-> "", arg |-> IntArg(WInt(int_of(op[1])))]
    ELSE IF op[1] \notin IdentTokens THEN [err |-> "SyntaxError", arg |-> IntArg(WInt(0))]
    ELSE IF op[1] \in DOMAIN eval_ns THEN [err |-> "", arg |-> eval_ns[op[1]]]
    ELSE [err |-> "NameError", arg |-> IntArg(WInt(0))]

\* icls(*args) followed by inst.code
create_instruction(mnem, args) ==
    IF init_arity(mnem) # -1 /\ init_arity(mnem) # Len(args)
    THEN [exc |-> Raise("TypeError", "__init__() positional arguments", mnem, <<>>),
          self |-> NoInst]
    ELSE Instruction_code(Instruction(mnem, args))

\* the except clause around the creation of an instruction, made being
\* what the creation gave
created(mnem, ops, lineno, made) ==
    IF made.exc.err # ""
    THEN [exc |-> RaiseAt(made.exc.err, "Error creating instruction", mnem,
                          made.exc.msg.sig, lineno, <<mnem, " ">> \o ops),
          self |-> NoInst]
    ELSE made

\* repr() of a list of strings, from element j on
RECURSIVE list_repr(_, _)
list_repr(ops, j) ==
    IF j > Len(ops) THEN <<"]">>
    ELSE (IF j = 1 THEN <<"[">> ELSE <<",", " ">>) \o <<"'">> \o ops[j] \o <<"'">>
             \o list_repr(ops, j + 1)

\* one instruction line of the second pass
parse_line(item, eval_ns) ==
    LET line == item.line
        mnem == line[1]
        ops == split(SubSeq(line, 2, Len(line)), ",")
        evals == [j \in 1..Len(ops) |-> eval_operand(strip(ops[j]), eval_ns)]
        args == IF Len(line) = 1 THEN <<>> ELSE [j \in 1..Len(ops) |-> evals[j].arg]
    IN  IF line[1] \notin IdentTokens \/ (Len(line) > 1 /\ line[2] # " ")
        THEN [exc |-> RaiseAt("SyntaxError", "Expected instruction mnemonic", "", <<>>,
                              item.lineno, item.origline),
              self |-> NoInst]
        ELSE IF mnem \notin Mnemonics
        THEN [exc |-> RaiseAt("NameError", "Unknown instruction", mnem, <<>>,
                              item.lineno, <<mnem>>),
              self |-> NoInst]
        ELSE IF Len(line) > 1 /\ \E j \in 1..Len(ops) : evals[j].err # ""
        THEN LET j == CHOOSE j \in 1..Len(ops) :
                          evals[j].err # "" /\ \A h \in 1..(j - 1) : evals[h].err = ""
             IN  [exc |-> RaiseAt(evals[j].err, "Error parsing operand", "", <<>>,
                                  item.lineno, strip(ops[j])),
                  self |-> NoInst]
        ELSE created(mnem, IF Len(line) = 1 THEN <<>> ELSE list_repr(ops, 1),
                     item.lineno, create_instruction(mnem, args))

\* second pass of parse_asm from item k on
RECURSIVE second_pass(_, _, _, _)
\* code.append(inst) and the items after k, r being what line k gave
append_inst(clean, k, code, eval_ns, r) ==
    IF r.exc.err # "" THEN [exc |-> r.exc, code |-> code]
    ELSE second_pass(clean, k + 1, Append(code, InstEntry(r.self)), eval_ns)

second_pass(clean, k, code, eval_ns) ==
    IF k > Len(clean) THEN [exc |-> Raise("", "", "", <<>>), code |-> code]
    ELSE IF clean[k].k = "label"
    THEN second_pass(clean, k + 1, Append(code, LabelEntry(clean[k].name)), eval_ns)
    ELSE append_inst(clean, k, code, eval_ns, parse_line(clean[k], eval_ns))

\* the second pass evaluating operands without the labels the first pass
\* collected
pass_two_without_labels(first) ==
    IF first.exc.err # "" THEN [exc |-> first.exc, code |-> <<>>]
    ELSE second_pass(first.clean, 1, <<>>, _eval_ns)

\* parse_asm(asm, namespace)
\* the second pass over what the first pass gave
pass_two(first) ==
    IF first.exc.err # "" THEN [exc |-> first.exc, code |-> <<>>]
    ELSE second_pass(first.clean, 1, <<>>, first.eval_ns)

parse_asm(text, namespace) ==
    pass_two(first_pass(split(text, "\n"), 1, <<>>, dict_update(_eval_ns, namespace)))

\* CodePage.__init__ with self.asm = parsed, what parse_asm gave
CodePage_of_parsed(parsed, page_addr) ==
    IF parsed.exc.err # ""
    THEN Page("text", 0, <<>>, EmptyDict, <<>>, parsed.exc)
    ELSE CodePage_init("text", parsed.code, page_addr).page

\* CodePage.__init__ for an assembly string
CodePage_init_str(text, namespace, page_addr) ==
    CodePage_of_parsed(parse_asm(text, namespace), page_addr)

-----------------------------------------------------------------------------
(* The Code buffer exercised on its own: buffers are built with Code() and *)
(* replace(), then concatenated and compiled in one expression, as in      *)
(* test_code.                                                              *)

MaxFills == 2

NoOut == [kind |-> "none", x |-> <<>>, y |-> <<>>, s |-> <<>>,
          a |-> Code(<<>>), b |-> Code(<<>>), r |-> Ok(<<>>)]

\* initial byte strings of the buffers
CodeBytes == {<<5, 6>>, <<5, 6, 7, 8>>}
\* raw byte strings put to the left and right of a buffer
LeftBytes == {<<>>, <<3, 4>>}
RightBytes == {<<>>, <<1, 2>>}
\* fill expressions, offsets and pack formats handed to replace()
FillExprs == {Expr("x", "", 8)}
FillIndexes == 0..1
FillPackings == {"b", "h", "i"}
\* symbol tables handed to compile()
SymbolTables == {[x |-> 10], [x |-> -11], [x |-> 300]}

InitCode ==
    /\ ARCH = 64
    /\ asm = <<>>
    /\ pages = <<>>
    /\ fn = NoFn
    /\ inst = NoInst
    /\ bufA \in {Code(c) : c \in CodeBytes}
    /\ bufB \in {Code(c) : c \in CodeBytes}
    /\ out = NoOut

\* a.replace(index, expr, packing)
ReplaceA(index, expr, packing) ==
    /\ Len(bufA.replacements) < MaxFills
    /\ bufA' = Code_replace(bufA, index, expr, packing)
    /\ out' = NoOut
    /\ UNCHANGED <<ARCH, asm, pages, fn, bufB, inst>>

\* b.replace(index, expr, packing); b is given one fill at most
ReplaceB(index, expr, packing) ==
    /\ bufB.replacements = <<>>
    /\ bufB' = Code_replace(bufB, index, expr, packing)
    /\ out' = NoOut
    /\ UNCHANGED <<ARCH, asm, pages, fn, bufA, inst>>

\* (x + a + y).compile(s)
CompileXAY(x, y, s) ==
    /\ out' = [kind |-> "xay", x |-> x, y |-> y, s |-> s, a |-> bufA, b |-> bufB,
               r |-> Code_compile(Code_add_bytes(Code_radd(bufA, x), y), s)]
    /\ UNCHANGED <<ARCH, asm, pages, fn, bufA, bufB, inst>>

\* (a + b).compile(s)
CompileAB(s) ==
    /\ out' = [kind |-> "ab", x |-> <<>>, y |-> <<>>, s |-> s, a |-> bufA, b |-> bufB,
               r |-> Code_compile(Code_add(bufA, bufB), s)]
    /\ UNCHANGED <<ARCH, asm, pages, fn, bufA, bufB, inst>>

NextCode ==
    \/ \E i \in FillIndexes, e \in FillExprs, p \in FillPackings : ReplaceA(i, e, p)
    \/ \E i \in FillIndexes, e \in FillExprs, p \in FillPackings : ReplaceB(i, e, p)
    \/ \E x \in LeftBytes, y \in RightBytes, s \in SymbolTables : CompileXAY(x, y, s)
    \/ \E s \in SymbolTables : CompileAB(s)

SpecCode == InitCode /\ [][NextCode]_vars

\* what distributing compile over the concatenation gives for the operands
\* of the last evaluated expression
Distributed ==
    IF out.kind = "xay"
    THEN CatResults(<<Ok(out.x), Code_compile(out.a, out.s), Ok(out.y)>>)
    ELSE CatResults(<<Code_compile(out.a, out.s), Code_compile(out.b, out.s)>>)

CompiledBuffer ==
    IF out.kind = "xay"
    THEN Code_add_bytes(Code_radd(out.a, out.x), out.y)
    ELSE Code_add(out.a, out.b)

\* byte position p (from 1) lies in the range some fill of self overwrites
InRecordedRange(self, p) ==
    \E k \in 1..Len(self.replacements) :
        /\ p > self.replacements[k].index
        /\ p <= self.replacements[k].index + PackSize(self.replacements[k].packing)

\* the compiled bytes have the buffer's length and agree with the buffer's
\* bytes outside the ranges of its fills
LengthAndOutsideKept(self, bytes) ==
    /\ Len(bytes) = Len(self.code)
    /\ \A p \in 1..Len(self.code) :
           ~InRecordedRange(self, p) => bytes[p] = self.code[p]

-----------------------------------------------------------------------------
(* Code pages built from one program, as a structured list and as text     *)

MaxProg == 3
MaxPages == 2

\* addresses at which the region of a page may be mapped
Bases == {4096, 8192}

\* Code(b'\0\0\0\0') with replace(0, '<name>', 'i'): the absolute address
\* of a label
AbsRef(name) == Code_replace(Code(<<0, 0, 0, 0>>), 0, Expr(name, "", 0), "i")

\* the entries programs are made of
ProgramEntries ==
    { LabelEntry("a"), LabelEntry("b"),
      InstEntry(Instruction("ret", <<>>)),
      InstEntry(Instruction("jmp", <<StrArg("a")>>)),
      InstEntry(Instruction("je", <<StrArg("b")>>)),
      InstEntry(Instruction("call", <<StrArg("b")>>)),
      InstEntry(Instruction("jmp", <<IntArg(WInt(7))>>)),
      InstEntry(Instruction("jmp", <<StrArg("next")>>)),
      InstEntry(Instruction("jmp", <<StrArg("next_instr_addr")>>)),
      InstEntry(Instruction("ret", <<IntArg(WInt(7)), IntArg(WInt(7))>>)),
      BytesEntry(<<239, 190>>),
      CodeEntry(AbsRef("a")) }

\* How a program is written as text.  "plain": one entry per line.
\* "dense": a label shares the line of the instruction after it, lines are
\* indented and commented, blank lines separate them, and the integer 7 is
\* written as the caller-supplied symbol n.
Styles == {"plain", "dense"}

namespace_of(style) == IF style = "dense" THEN [n |-> IntArg(WInt(7))] ELSE EmptyDict

render_arg(arg, style) ==
    CASE arg.t = "reg" -> arg.reg.name
      [] arg.t = "str" -> arg.s
      [] arg.t = "int" -> IF style = "dense" /\ WSmall(arg.w) = 7 THEN "n"
                          ELSE str_of(WSmall(arg.w))

RECURSIVE render_args(_, _, _)
render_args(args, j, style) ==
    IF j > Len(args) THEN <<>>
    ELSE (IF j = 1 THEN <<" ">> ELSE <<",", " ">>)
             \o <<render_arg(args[j], style)>> \o render_args(args, j + 1, style)

render_inst(i, style) == <<i.name>> \o render_args(i.args, 1, style)

\* the text of the entries from k on
RECURSIVE Render(_, _, _)
Render(asm_, k, style) ==
    IF k > Len(asm_) THEN <<>>
    ELSE LET e == asm_[k]
             comment == <<" ", "#", " ", "a", ":", " ", "ret">>
         IN  IF style = "plain"
             THEN (IF e.k = "label" THEN <<e.name, ":">> ELSE render_inst(e.inst, style))
                      \o <<"\n">> \o Render(asm_, k + 1, style)
             ELSE IF e.k = "label" /\ k < Len(asm_) /\ asm_[k + 1].k = "inst"
             THEN <<" ", e.name, ":", " ">> \o render_inst(asm_[k + 1].inst, style)
                      \o comment \o <<"\n", " ", "\n">> \o Render(asm_, k + 2, style)
             ELSE IF e.k = "label"
             THEN <<" ", " ", e.name, " ", ":", "\n", "\n">> \o Render(asm_, k + 1, style)
             ELSE <<" ">> \o render_inst(e.inst, style) \o <<" ">> \o comment \o <<"\n">>
                      \o Render(asm_, k + 1, style)

\* every entry can be written as text
Expressible(asm_) == \A k \in 1..Len(asm_) : asm_[k].k \in {"label", "inst"}

Init ==
    /\ ARCH \in {32, 64}
    /\ asm = <<>>
    /\ pages = <<>>
    /\ fn = NoFn
    /\ inst = NoInst
    /\ bufA = Code(<<>>)
    /\ bufB = Code(<<>>)
    /\ out = NoOut

\* the caller appends an entry to the list before any page is built
AddEntry(e) ==
    /\ pages = <<>>
    /\ Len(asm) < MaxProg
    /\ asm' = Append(asm, e)
    /\ UNCHANGED <<ARCH, pages, fn, bufA, bufB, out, inst>>

\* the constructor gave r: the page, and the caller's list with the caches
\* of its instructions filled
Built(r) ==
    /\ asm' = r.asm
    /\ pages' = Append(pages, r.page)

\* CodePage(asm) for the list, the region mapped at base
BuildFromList(base) ==
    /\ Len(pages) < MaxPages
    /\ Built(CodePage_init("list", asm, base))
    /\ UNCHANGED <<ARCH, fn, bufA, bufB, out, inst>>

\* CodePage(text, namespace) for the program written as text
BuildFromText(base, style) ==
    /\ Len(pages) < MaxPages
    /\ Expressible(asm)
    /\ LET page == CodePage_init_str(Render(asm, 1, style), namespace_of(style), base)
       IN  pages' = Append(pages, [page EXCEPT !.src = style])
    /\ UNCHANGED <<ARCH, asm, fn, bufA, bufB, out, inst>>

\* page.get_function(label) on a page that was built
GetFunction(i, label) ==
    /\ i \in 1..Len(pages)
    /\ pages[i].exc.err = ""
    /\ LET r == get_function(pages[i], label)
       IN  fn' = [page |-> i, label |-> label, addr |-> r.addr, err |-> r.err]
    /\ UNCHANGED <<ARCH, asm, pages, bufA, bufB, out, inst>>

Next ==
    \/ \E e \in ProgramEntries : AddEntry(e)
    \/ \E base \in Bases : BuildFromList(base)
    \/ \E base \in Bases, style \in Styles : BuildFromText(base, style)
    \/ \E i \in 1..MaxPages, label \in {<<>>, <<"a">>, <<"b">>} : GetFunction(i, label)

Spec == Init /\ [][Next]_vars

\* the pages that were built without an exception
Compiled == {i \in 1..Len(pages) : pages[i].exc.err = ""}

\* the bytes the emit pass produces for the first k entries of a page
EmitPrefix(p, k) == emit_pass(SubSeq(p.asm, 1, k), 1, <<>>, p.labels, p.page_addr).val

\* the last marker of a name is the one whose address the page keeps
IsLastMarker(p, k) ==
    /\ p.asm[k].k = "label"
    /\ \A j \in (k + 1)..Len(p.asm) : ~(p.asm[j].k = "label" /\ p.asm[j].name = p.asm[k].name)

\* the names the programs mark
LabelNames == {"a", "b"}

\* the entry is a relative branch to a name
IsNameBranch(e) ==
    e.k = "inst" /\ e.inst.name \in RelBranchMnemonics
        /\ Len(e.inst.args) = 1 /\ e.inst.args[1].t = "str"

\* the entry is a relative branch to a label name
IsLabelBranch(e) == IsNameBranch(e) /\ e.inst.args[1].s \in LabelNames

\* a program with two markers of one name
HasDuplicateLabels(asm_) ==
    \E j, k \in 1..Len(asm_) :
        j < k /\ asm_[j].k = "label" /\ asm_[k].k = "label" /\ asm_[j].name = asm_[k].name

\* the displacement field of the branch at entry k, read back from the
\* bytes of the page
DisplacementAt(p, k) ==
    LET end == Len(EmitPrefix(p, k))
    IN  struct_unpack(SubSeq(p.code, end - 3, end))

\* C1: on every compiled page the address kept for a label is the page base
\* plus the bytes the emit pass produces for the entries before its marker;
\* a marker adds no bytes, every other entry adds len(entry) bytes, and the
\* emitted total is len(CodePage).
C1_LabelAddressIsBasePlusEmitted ==
    \A i \in Compiled :
        LET p == pages[i]
        IN  /\ \A k \in 1..Len(p.asm) :
                   /\ IsLastMarker(p, k) =>
                          /\ p.asm[k].name \in DOMAIN p.labels
                          /\ p.labels[p.asm[k].name]
                                 = p.page_addr + Len(EmitPrefix(p, k - 1))
                   /\ Len(EmitPrefix(p, k)) = Len(EmitPrefix(p, k - 1))
                          + (IF p.asm[k].k = "label" THEN 0
                             ELSE IF p.asm[k].k = "inst"
                                  THEN Instruction_len(p.asm[k].inst)
                                  ELSE Len(p.asm[k].code.code))
            /\ p.code = EmitPrefix(p, Len(p.asm))
            /\ Len(p.code) = CodePage_len(p.asm, 1, 0).n

\* a compiled page with a marker behind a label branch and other bytes
C1_Witness ==
    \E i \in Compiled :
        \E j, k \in 1..Len(pages[i].asm) :
            /\ j < k /\ IsLabelBranch(pages[i].asm[j])
            /\ IsLastMarker(pages[i], k)
            /\ pages[i].labels[pages[i].asm[k].name] > pages[i].page_addr + 5

\* C2: the displacement written for a branch to a label name is the
\* label's address minus the address of the first byte after the branch,
\* wherever the branch and the label are in the program.
C2_DisplacementIsLabelMinusNext ==
    \A i \in Compiled :
        LET p == pages[i]
        IN  \A k \in 1..Len(p.asm) :
                IsLabelBranch(p.asm[k]) =>
                    DisplacementAt(p, k)
                        = p.labels[p.asm[k].inst.args[1].s]
                              - (p.page_addr + Len(EmitPrefix(p, k - 1))
                                     + Instruction_len(p.asm[k].inst))

\* one page holds a branch to a label defined after it and a branch to a
\* label defined before it, the second with a negative displacement
C2_Witness ==
    \E i \in Compiled :
        LET p == pages[i]
        IN  \E j, k \in 1..Len(p.asm), m \in 1..Len(p.asm) :
                /\ IsLabelBranch(p.asm[j]) /\ IsLabelBranch(p.asm[k])
                /\ j < m /\ m < k /\ IsLastMarker(p, m)
                /\ p.asm[j].inst.args[1].s = p.asm[m].name
                /\ p.asm[k].inst.args[1].s = p.asm[m].name
                /\ DisplacementAt(p, k) < 0

\* the start offset of entry k in the page: the lengths of the entries before it
RECURSIVE OffsetOf(_, _)
OffsetOf(p, k) ==
    IF k = 1 THEN 0
    ELSE OffsetOf(p, k - 1)
             + (IF p.asm[k - 1].k = "label" THEN 0
                ELSE IF p.asm[k - 1].k = "inst" THEN Instruction_len(p.asm[k - 1].inst)
                ELSE Len(p.asm[k - 1].code.code))

\* the program of a page with every label target replaced by the integer
\* N = label address - start address of the branch
WithIntegerTargets(p) ==
    [k \in 1..Len(p.asm) |->
        IF IsLabelBranch(p.asm[k])
        THEN InstEntry(Instruction(p.asm[k].inst.name,
                 <<IntArg(WInt(p.labels[p.asm[k].inst.args[1].s]
                                   - (p.page_addr + OffsetOf(p, k))))>>))
        ELSE p.asm[k]]

\* C3: a compiled program that branches to label names emits the bytes of
\* the same program with each label target replaced by the integer
\* N = label address - start address of that branch.
C3_LabelRoundTrip ==
    \A i \in Compiled :
        LET p == pages[i]
            q == CodePage_init("list", WithIntegerTargets(p), p.page_addr).page
        IN  (\E k \in 1..Len(p.asm) : IsLabelBranch(p.asm[k]))
                => (q.exc.err = "" /\ q.code = p.code)

\* a compiled page with a branch to a label that is not at the branch
\* itself nor right behind it
C3_Witness ==
    \E i \in Compiled :
        LET p == pages[i]
        IN  \E k \in 1..Len(p.asm) :
                /\ IsLabelBranch(p.asm[k])
                /\ DisplacementAt(p, k) \notin {0, 0 - Instruction_len(p.asm[k].inst)}

\* the parsed list of a page built from text names the entries of the
\* program: same markers, mnemonics and operands, in order
SameEntries(parsed, asm_) ==
    /\ Len(parsed) = Len(asm_)
    /\ \A k \in 1..Len(asm_) :
           /\ parsed[k].k = asm_[k].k
           /\ parsed[k].name = asm_[k].name
           /\ parsed[k].inst.name = asm_[k].inst.name
           /\ parsed[k].inst.args = asm_[k].inst.args

C7_FunctionAddress ==
    (fn.page # 0 /\ fn.err = "") =>
        LET p == pages[fn.page]
        IN  IF fn.label = <<>> THEN fn.addr = p.page_addr
            ELSE \E k \in 1..Len(p.asm) :
                     /\ IsLastMarker(p, k) /\ p.asm[k].name = fn.label[1]
                     /\ fn.addr = p.page_addr + Len(EmitPrefix(p, k - 1))

\* a function taken at a label that lies behind emitted bytes
C7_Witness ==
    /\ fn.page # 0 /\ fn.err = "" /\ fn.label # <<>>
    /\ fn.addr > pages[fn.page].page_addr

\* the program holds no Code object of the caller's: labels, raw bytes and
\* instructions only
NoCallerCode(asm_) == \A k \in 1..Len(asm_) : asm_[k].k # "code"

\* C8 as stated: two pages compiled from the same program hold the same
\* bytes, wherever their regions are mapped.
C8_SameBytesAtAnyBase ==
    \A i, j \in Compiled : pages[i].code = pages[j].code

\* C8 amended: the bytes are a function of the program, the bitness and the
\* base address of the page; they do not depend on the base when the
\* program is made of labels, raw bytes and instructions (whose label
\* references are relative); and reading an instruction's code again gives
\* the cached value.
C8_SameBytesAtSameBase ==
    /\ \A i, j \in Compiled :
           (pages[i].page_addr = pages[j].page_addr \/ NoCallerCode(asm))
               => pages[i].code = pages[j].code
    /\ \A k \in 1..Len(asm) :
           (asm[k].k = "inst" /\ asm[k].inst._code # <<>>)
               => /\ Instruction_code(asm[k].inst).exc.err = ""
                  /\ Instruction_code(asm[k].inst).self = asm[k].inst

\* two pages of one program with a label branch, compiled at different bases
C8_Witness ==
    \E i, j \in Compiled :
        /\ pages[i].page_addr # pages[j].page_addr
        /\ \E k \in 1..Len(asm) : IsLabelBranch(asm[k])
        /\ NoCallerCode(asm)

\* C9 as stated: no program with two markers of one name compiles, from
\* text or from a list.
C9_DuplicateLabelsRejected ==
    \A i \in 1..Len(pages) : HasDuplicateLabels(asm) => pages[i].exc.err # ""

\* a program with two markers of one name was built from its list, and the
\* same program written as text was refused with NameError
C9_Witness ==
    \E i, j \in 1..Len(pages) :
        /\ HasDuplicateLabels(asm)
        /\ pages[i].src = "list" /\ pages[i].exc.err = ""
        /\ pages[j].src \in Styles /\ pages[j].exc.err = "NameError"

\* the names a program marks
Marked(asm_) == {asm_[k].name : k \in {j \in 1..Len(asm_) : asm_[j].k = "label"}}

\* the program branches to a name it marks nowhere
BranchesNowhere(asm_) ==
    \E k \in 1..Len(asm_) :
        IsNameBranch(asm_[k]) /\ asm_[k].inst.args[1].s \notin Marked(asm_)

\* every instruction that is not a branch to a name encodes
OthersEncode(asm_) ==
    \A k \in 1..Len(asm_) :
        (asm_[k].k = "inst" /\ ~IsNameBranch(asm_[k]))
            => Instruction_code(asm_[k].inst).exc.err = ""

\* C14: building a page from a program that branches to a name marked
\* nowhere in the program fails with a name error, from a list and from
\* text alike, and emits nothing.
C14_UndefinedNameIsNameError ==
    \A i \in 1..Len(pages) :
        (BranchesNowhere(asm) /\ OthersEncode(asm))
            => pages[i].exc.err = "NameError"

\* the list <<jmp next_instr_addr>>, a name marked nowhere, was compiled to
\* a jump with displacement zero, and the same program as text was refused
\* with NameError
C14_Witness ==
    \E i, j \in 1..Len(pages) :
        /\ Len(asm) = 1 /\ asm[1].k = "inst" /\ asm[1].inst.name = "jmp"
        /\ asm[1].inst.args = <<StrArg("next_instr_addr")>>
        /\ pages[i].src = "list" /\ pages[i].exc.err = ""
        /\ pages[i].code = <<233, 0, 0, 0, 0>>
        /\ pages[j].src \in Styles /\ pages[j].exc.err = "NameError"

\* entry j of the program is a branch to a label whose only marker is the
\* later entry k
ForwardBranch(asm_, j, k) ==
    /\ j < k
    /\ IsLabelBranch(asm_[j])
    /\ asm_[k].k = "label" /\ asm_[k].name = asm_[j].inst.args[1].s
    /\ \A h \in 1..Len(asm_) :
           (asm_[h].k = "label" /\ asm_[h].name = asm_[k].name) => h = k

\* nothing else is wrong with the program: it can be written as text, marks
\* no name twice, branches only to names it marks, and its other
\* instructions encode
Sound(asm_) ==
    /\ Expressible(asm_)
    /\ ~HasDuplicateLabels(asm_)
    /\ ~BranchesNowhere(asm_)
    /\ OthersEncode(asm_)

\* C26: a branch in assembly text may name a label defined on a later
\* line: the text is parsed without error, and the branch resolves to the
\* address of that later label.
C26_ForwardLabelInText ==
    \A i \in 1..Len(pages) :
        pages[i].src \in Styles =>
            \A j, k \in 1..Len(asm) :
                (ForwardBranch(asm, j, k) /\ Sound(asm)) =>
                    /\ pages[i].exc.err = ""
                    /\ pages[i].asm[k] = LabelEntry(asm[k].name)
                    /\ pages[i].labels[asm[k].name]
                           = pages[i].page_addr + Len(EmitPrefix(pages[i], k - 1))
                    /\ DisplacementAt(pages[i], j)
                           = Len(EmitPrefix(pages[i], k - 1)) - Len(EmitPrefix(pages[i], j))

\* the text 'je b / ret / b:' was parsed and compiled: the branch skips
\* the one byte of ret
C26_Witness ==
    \E i \in 1..Len(pages) :
        /\ pages[i].src = "plain" /\ pages[i].exc.err = ""
        /\ Len(asm) = 3 /\ ForwardBranch(asm, 1, 3) /\ Sound(asm)
        /\ asm[1].inst.name = "je" /\ asm[2].inst.name = "ret"
        /\ DisplacementAt(pages[i], 1) = 1
        /\ pages[i].code = <<15, 132, 1, 0, 0, 0, 195>>

-----------------------------------------------------------------------------
(* One instruction: constructed, then read                                 *)

MaxArgs == 2

\* the arguments instructions are constructed with
EncArgs ==
    { RegArg(al), RegArg(ax), RegArg(eax), RegArg(ecx), RegArg(rax), RegArg(r8),
      RegArg(r9d),
      IntArg(WInt(0)), IntArg(WInt(7)), IntArg(WInt(-1)), IntArg(WInt(-300)),
      IntArg(WInt(100)), IntArg(WInt(200)), IntArg(WInt(40000)), IntArg(WInt(70000)),
      IntArg(WNorm(0, 222, 11386607)),      \* 0xdeadbeef
      IntArg(WNorm(0, 291, 4548489)),       \* 0x123456789
      IntArg(WNorm(0, 128, 2)),             \* 2^31 + 2
      IntArg(WNorm(-1, Limb - 128, 0)),     \* -2^31
      IntArg(WNorm(65536, 0, 0)),           \* 2^64
      StrArg("a"), BytesArg(<<1, 2>>), BytesArg(<<1, 2, 3>>),
      PtrArg(Pointer(<<eax>>, <<>>, <<>>, <<>>)),          \* [eax]
      PtrArg(Pointer(<<r9d>>, <<>>, <<>>, <<>>)),          \* [r9d]
      PtrArg(Pointer(<<rax>>, <<>>, <<>>, <<WInt(8)>>)),   \* [rax + 8]
      PtrArg(Pointer(<<rcx>>, <<>>, <<r8>>, <<>>)),        \* [rcx + r8]
      PtrArg(Pointer(<<r13>>, <<2>>, <<r8>>, <<>>)) }      \* [r8 + r13*2]

ArgVectors == UNION {[1..n -> EncArgs] : n \in 0..MaxArgs}

NoEncOut == [op |-> "none", name |-> "", args |-> <<>>, exc |-> Raise("", "", "", <<>>)]

InitEnc ==
    /\ ARCH \in {32, 64}
    /\ asm = <<>>
    /\ pages = <<>>
    /\ fn = NoFn
    /\ bufA = Code(<<>>)
    /\ bufB = Code(<<>>)
    /\ inst = NoInst
    /\ out = NoEncOut

\* inst = name(*args): a class with an __init__ of its own takes exactly
\* its operands, and the call raises TypeError for any other count
NewInstruction(name, args) ==
    /\ out.op = "none"
    /\ IF init_arity(name) # -1 /\ init_arity(name) # Len(args)
       THEN /\ inst' = NoInst
            /\ out' = [op |-> "new", name |-> name, args |-> args,
                       exc |-> Raise("TypeError", "__init__() positional arguments", name, <<>>)]
       ELSE /\ inst' = Instruction(name, args)
            /\ out' = [op |-> "new", name |-> name, args |-> args,
                       exc |-> Raise("", "", "", <<>>)]
    /\ UNCHANGED <<ARCH, asm, pages, fn, bufA, bufB>>

\* a property was read and gave r: the caches it filled stay on the object
WasRead(op, r) ==
    /\ inst' = r.self
    /\ out' = [out EXCEPT !.op = op, !.exc = r.exc]

\* inst.sig
ReadSig ==
    /\ inst # NoInst
    /\ WasRead("sig", Instruction_sig(inst))
    /\ UNCHANGED <<ARCH, asm, pages, fn, bufA, bufB>>

\* inst.code
ReadCode ==
    /\ inst # NoInst
    /\ WasRead("code", Instruction_code(inst))
    /\ UNCHANGED <<ARCH, asm, pages, fn, bufA, bufB>>

NextEnc ==
    \/ \E name \in Mnemonics, args \in ArgVectors : NewInstruction(name, args)
    \/ ReadSig
    \/ ReadCode

SpecEnc == InitEnc /\ [][NextEnc]_vars

\* C4: a relative branch given an integer target N encodes to plain bytes
\* with no pending fill, whose displacement field holds N - L, L being the
\* length of the whole instruction.
C4_IntegerTargetDisplacement ==
    (/\ out.op = "code" /\ out.exc.err = ""
     /\ inst.name \in RelBranchMnemonics /\ inst.args[1].t = "int")
        => LET c == inst._code[1]
               L == Len(c.code)
               opcode == CASE inst.name = "jmp" -> <<233>> [] inst.name = "call" -> <<232>>
                           [] inst.name = "je" -> <<15, 132>>
           IN  /\ ~c.isCode /\ c.replacements = <<>>
               /\ L = Len(opcode) + 4
               /\ SubSeq(c.code, 1, L - 4) = opcode
               /\ WAdd(WInt(struct_unpack(SubSeq(c.code, L - 3, L))), L) = inst.args[1].w

\* je 7 was encoded: 0f 84 and the displacement 7 - 6
C4_Witness ==
    /\ out.op = "code" /\ out.exc.err = ""
    /\ inst.name = "je" /\ inst.args = <<IntArg(WInt(7))>>
    /\ inst._code = <<Bytes(<<15, 132, 1, 0, 0, 0>>)>>

\* the table of section "Mode selection": a supplied tag against a candidate
TagAccepted(sig, mode) ==
    CASE mode.ty = "r" -> sig.ty = "r" /\ sig.bits = mode.bits
      [] mode.ty = "r/m" -> sig.ty \in {"r", "m"} /\ sig.bits \in {0, mode.bits}
      [] mode.ty = "imm" -> sig.ty = "imm"
                              /\ (mode.bits >= sig.bits
                                    \/ (sig.u /\ 2 * mode.bits >= sig.bits))
      [] mode.ty = "rel" -> sig.ty = "rel"
      [] OTHER -> FALSE

\* some recipe of the mnemonic allowed on this bitness accepts the tags
SomeRecipeAccepts(name, sig) ==
    \E k \in 1..Len(modes_of(name)) :
        LET m == modes_of(name)[k]
        IN  /\ (IF ARCH = 64 THEN m.a64 ELSE m.a32)
            /\ Len(m.sig) = Len(sig)
            /\ (m.sig = sig \/ \A i \in 1..Len(sig) : TagAccepted(sig[i], m.sig[i]))

\* every supplied argument has a tag
Tagged(args) == \A k \in 1..Len(args) : arg_tag(args[k]).err = ""
SuppliedTags(args) == [k \in 1..Len(args) |-> arg_tag(args[k]).tag]

\* the arguments are plain operands: the branch classes turn an integer or
\* a name into 'rel32' themselves
PlainOperands(name, args) ==
    ~(name \in RelBranchMnemonics /\ Len(args) = 1 /\ args[1].t \in {"int", "str"})

\* C10 as stated: whenever no recipe allowed on this bitness accepts the
\* supplied arguments, a wrong operand count included, the attempt ends in a
\* TypeError naming the mnemonic and the supplied tag tuple.
C10_RejectionNamesTags ==
    (/\ out.op = "code" \/ (out.op = "new" /\ out.exc.err # "")
     /\ Tagged(out.args) /\ PlainOperands(out.name, out.args)
     /\ ~SomeRecipeAccepts(out.name, SuppliedTags(out.args)))
        => /\ out.exc.err = "TypeError"
           /\ out.exc.msg.name = out.name
           /\ out.exc.msg.sig = SuppliedTags(out.args)

\* C10 amended: when the signature of a constructed instruction was read
\* and no recipe allowed on this bitness accepts it, reading the code raises
\* TypeError naming the mnemonic and the tag tuple and leaves no bytes; an
\* operand count other than the one the class's constructor takes is a
\* TypeError of the call itself, and no instruction exists.
C10_NoRecipeIsTypeError ==
    /\ (/\ out.op = "code" /\ inst._sig # <<>>
        /\ ~SomeRecipeAccepts(inst.name, inst._sig[1]))
           => /\ out.exc.err = "TypeError"
              /\ out.exc.msg.name = inst.name
              /\ out.exc.msg.sig = inst._sig[1]
              /\ inst._mode = <<>> /\ inst._code = <<>>
    /\ (/\ out.op = "new"
        /\ init_arity(out.name) # -1 /\ init_arity(out.name) # Len(out.args))
           => out.exc.err = "TypeError" /\ inst = NoInst

\* add rax, eax was read on 64 bits and rejected
C10_Witness ==
    /\ out.op = "code" /\ ARCH = 64
    /\ inst.name = "add" /\ inst.args = <<RegArg(rax), RegArg(eax)>>
    /\ out.exc.err = "TypeError"
    /\ out.exc.msg.sig = <<Tag("r", 64), Tag("r", 32)>>

\* a supplied tag is accepted strongly: the candidate's type and width fit
\* without the unsigned hint
StronglyAccepted(sig, mode) ==
    CASE mode.ty = "r" -> sig.ty = "r" /\ sig.bits = mode.bits
      [] mode.ty = "r/m" -> sig.ty \in {"r", "m"} /\ sig.bits \in {0, mode.bits}
      [] mode.ty = "imm" -> sig.ty = "imm" /\ mode.bits >= sig.bits
      [] mode.ty = "rel" -> sig.ty = "rel"
      [] OTHER -> FALSE

\* the recipes of a mnemonic allowed on this bitness, in declaration order
Candidates(name) ==
    SelectSeq(modes_of(name), LAMBDA m : IF ARCH = 64 THEN m.a64 ELSE m.a32)

\* the candidates that accept every tag strongly, and those that accept
\* every tag but at least one only weakly
StrongAt(sig, modes) ==
    {k \in 1..Len(modes) :
        /\ Len(modes[k].sig) = Len(sig)
        /\ \A i \in 1..Len(sig) : StronglyAccepted(sig[i], modes[k].sig[i])}

WeakAt(sig, modes) ==
    {k \in 1..Len(modes) :
        /\ Len(modes[k].sig) = Len(sig)
        /\ \A i \in 1..Len(sig) : TagAccepted(sig[i], modes[k].sig[i])
        /\ \E i \in 1..Len(sig) : ~StronglyAccepted(sig[i], modes[k].sig[i])}

\* the first index of a non-empty set of indexes
First(S) == CHOOSE k \in S : \A j \in S : k <= j

\* the code of an instruction was read, its tags were found, and no
\* candidate's key equals the tag tuple
SelectedBySearch ==
    /\ out.op = "code" /\ inst # NoInst /\ inst._sig # <<>>
    /\ \A k \in 1..Len(Candidates(inst.name)) : Candidates(inst.name)[k].sig # inst._sig[1]

\* C15: without an exact key, selection returns the first candidate in
\* declaration order that accepts every tag strongly, even behind a weakly
\* accepting one; without a strong candidate it returns the first weakly
\* accepting one.
C15_StrongBeatsWeakThenFirst ==
    SelectedBySearch =>
        /\ StrongAt(inst._sig[1], Candidates(inst.name)) # {} =>
               inst._mode = <<Candidates(inst.name)[
                                  First(StrongAt(inst._sig[1], Candidates(inst.name)))]>>
        /\ (/\ StrongAt(inst._sig[1], Candidates(inst.name)) = {}
            /\ WeakAt(inst._sig[1], Candidates(inst.name)) # {}) =>
               inst._mode = <<Candidates(inst.name)[
                                  First(WeakAt(inst._sig[1], Candidates(inst.name)))]>>

\* push(200): the tag is imm16u, the imm8 recipe accepts it weakly and is
\* declared first, and the imm32 recipe behind it was selected
C15_Witness ==
    /\ SelectedBySearch
    /\ inst.name = "push" /\ inst.args = <<IntArg(WInt(200))>>
    /\ inst._sig = << <<TagU("imm", 16)>> >>
    /\ \E k \in WeakAt(inst._sig[1], Candidates("push")) :
           /\ Candidates("push")[k].sig = <<Tag("imm", 8)>>
           /\ k < First(StrongAt(inst._sig[1], Candidates("push")))
    /\ inst._mode[1].sig = <<Tag("imm", 32)>>
    /\ inst._code = <<Bytes(<<104, 200, 0, 0, 0>>)>>

\* the code of an instruction with an integer immediate at operand i was
\* read and the instruction was encoded
EncodedImmediateAt(i) ==
    /\ out.op = "code" /\ out.exc.err = "" /\ inst # NoInst
    /\ PlainOperands(inst.name, inst.args)
    /\ i \in 1..Len(inst.args)
    /\ inst.args[i].t = "int"
    /\ operand_enc(inst._mode[1].enc)[i] = "imm"

\* the immediate bytes of the encoded instruction: its last operand string
EmittedImmediate == inst._operands[1][Len(inst._operands[1])]

\* candidate m accepts the tags of the operands other than i
AcceptsOthers(m, i) ==
    /\ Len(m.sig) = Len(inst._sig[1])
    /\ \A j \in 1..Len(m.sig) : j # i => TagAccepted(inst._sig[1][j], m.sig[j])

\* the immediate at i went out in its unsigned form, v the value and w the
\* width of the selected recipe: the recipe accepted it weakly
UnsignedAt(i, v, w) ==
    /\ EmittedImmediate = pack_unsigned(v, w).val
    /\ pack_unsigned(v, w).err = ""
    /\ ~StronglyAccepted(inst._sig[1][i], inst._mode[1].sig[i])
    /\ TagAccepted(inst._sig[1][i], inst._mode[1].sig[i])

\* C16 (as stated): an integer immediate that fits as signed at the width
\* of the selected recipe is packed signed; it is packed unsigned only when
\* the recipe was accepted weakly, that is when no recipe of the mnemonic
\* allowed on this bitness has an immediate width at which the value fits
\* as signed.
C16_UnsignedOnlyWithoutSignedRecipe ==
    \A i \in 1..MaxArgs :
        EncodedImmediateAt(i) =>
            IF FitsSigned(inst.args[i].w, inst._use_sig[1][i].bits)
            THEN EmittedImmediate = pack_signed(inst.args[i].w, inst._use_sig[1][i].bits).val
            ELSE /\ UnsignedAt(i, inst.args[i].w, inst._use_sig[1][i].bits)
                 /\ \A k \in 1..Len(Candidates(inst.name)) :
                        \A j \in 1..Len(Candidates(inst.name)[k].sig) :
                            Candidates(inst.name)[k].sig[j].ty = "imm"
                                => ~FitsSigned(inst.args[i].w,
                                               Candidates(inst.name)[k].sig[j].bits)

\* C16 (amended): an integer immediate that fits as signed at the width of
\* the selected recipe is packed signed; it is packed unsigned only when
\* the recipe was accepted weakly, that is when no recipe of the mnemonic
\* allowed on this bitness that accepts the other operands has an
\* immediate width at which the value fits as signed.
C16_UnsignedOnlyWithoutAcceptingSignedRecipe ==
    \A i \in 1..MaxArgs :
        EncodedImmediateAt(i) =>
            IF FitsSigned(inst.args[i].w, inst._use_sig[1][i].bits)
            THEN EmittedImmediate = pack_signed(inst.args[i].w, inst._use_sig[1][i].bits).val
            ELSE /\ UnsignedAt(i, inst.args[i].w, inst._use_sig[1][i].bits)
                 /\ \A k \in 1..Len(Candidates(inst.name)) :
                        (/\ AcceptsOthers(Candidates(inst.name)[k], i)
                         /\ Candidates(inst.name)[k].sig[i].ty = "imm")
                            => ~FitsSigned(inst.args[i].w,
                                           Candidates(inst.name)[k].sig[i].bits)

\* add(al, 200) was encoded as 80 c0 c8: 200 does not fit a signed byte,
\* the only recipe that takes al with an immediate is imm8, and other
\* recipes of add have immediates of 16 and 32 bits
C16_Witness ==
    /\ EncodedImmediateAt(2)
    /\ inst.name = "add" /\ inst.args = <<RegArg(al), IntArg(WInt(200))>>
    /\ inst._use_sig[1] = <<Tag("r/m", 8), Tag("imm", 8)>>
    /\ inst._code = <<Bytes(<<128, 192, 200>>)>>

\* mode selection settled on a recipe that accepts the integer at operand
\* i weakly: its tag is immNu and the recipe's immediate has M bits with
\* N/2 <= M < N
WeaklySelectedAt(i) ==
    /\ inst # NoInst /\ inst._mode # <<>>
    /\ PlainOperands(inst.name, inst.args)
    /\ i \in 1..Len(inst.args)
    /\ inst.args[i].t = "int"
    /\ inst._mode[1].sig[i].ty = "imm"
    /\ inst._sig[1][i].u
    /\ inst._mode[1].sig[i].bits < inst._sig[1][i].bits
    /\ 2 * inst._mode[1].sig[i].bits >= inst._sig[1][i].bits

\* C28: after a weak selection of a recipe for an integer immediate, the
\* integer packs as unsigned at the recipe's width M: reading the code
\* does not end in a packing failure, and the immediate that goes out is
\* the unsigned form of M bits.
C28_WeakSelectionPacks ==
    \A i \in 1..MaxArgs :
        WeaklySelectedAt(i) =>
            /\ pack_unsigned(inst.args[i].w, inst._mode[1].sig[i].bits).err = ""
            /\ out.op = "code" =>
                    /\ out.exc.err \notin {"struct.error", "AssertionError"}
                    /\ out.exc.err = "" =>
                            EmittedImmediate
                                = pack_unsigned(inst.args[i].w, inst._mode[1].sig[i].bits).val

\* add(eax, 0xdeadbeef) was encoded: the integer is tagged imm64u, the
\* recipe takes imm32, and ef be ad de went out
C28_Witness ==
    /\ WeaklySelectedAt(2)
    /\ out.op = "code" /\ out.exc.err = ""
    /\ inst.name = "add"
    /\ inst.args = <<RegArg(eax), IntArg(WNorm(0, 222, 11386607))>>
    /\ inst._sig[1][2] = TagU("imm", 64)
    /\ inst._mode[1].sig[2] = Tag("imm", 32)
    /\ EmittedImmediate = <<239, 190, 173, 222>>

\* the signature of an instruction with an integer argument at i was read
SignatureReadAt(i) ==
    /\ inst # NoInst /\ inst._sig # <<>>
    /\ inst.name \notin RelBranchMnemonics
    /\ i \in 1..Len(inst.args)
    /\ inst.args[i].t = "int"
    /\ FitsSigned(inst.args[i].w, 64)

\* N is the smallest width at which v fits as a signed integer
SmallestSigned(v, N) ==
    /\ N \in {8, 16, 32, 64}
    /\ FitsSigned(v, N)
    /\ \A M \in {8, 16, 32, 64} : M < N => ~FitsSigned(v, M)

\* C17: the tag of an integer argument v of the signed 64-bit range is
\* immN with N the smallest of 8, 16, 32, 64 at which v fits as signed, and
\* it carries the 'u' suffix exactly when v > 0 and v fits as unsigned at a
\* width strictly smaller than N.
C17_TagWidthAndHint ==
    \A i \in 1..MaxArgs :
        SignatureReadAt(i) =>
            /\ inst._sig[1][i].ty = "imm"
            /\ SmallestSigned(inst.args[i].w, inst._sig[1][i].bits)
            /\ inst._sig[1][i].u <=>
                    (/\ WIsPositive(inst.args[i].w)
                     /\ \E M \in {8, 16, 32, 64} :
                            M < inst._sig[1][i].bits /\ FitsUnsigned(inst.args[i].w, M))

\* the signature of an instruction of 0xdeadbeef and -1 was read: imm64u
\* and imm8
C17_Witness ==
    /\ SignatureReadAt(1) /\ SignatureReadAt(2)
    /\ inst.args = <<IntArg(WNorm(0, 222, 11386607)), IntArg(WInt(-1))>>
    /\ inst._sig = <<(<<TagU("imm", 64), Tag("imm", 8)>>)>>

\* the availability flag of a recipe for the current bitness
Allowed(m) == IF ARCH = 64 THEN m.a64 ELSE m.a32

\* recipe m accepts the tag tuple sig, strongly or weakly
Accepts(m, sig) ==
    /\ Len(m.sig) = Len(sig)
    /\ \A i \in 1..Len(sig) : TagAccepted(sig[i], m.sig[i])

\* the code of an instruction was read and its tags are accepted by a
\* recipe of the mnemonic that is not available on this bitness
DisallowedWouldAccept ==
    /\ out.op = "code" /\ inst # NoInst /\ inst._sig # <<>>
    /\ \E k \in 1..Len(modes_of(inst.name)) :
            /\ ~Allowed(modes_of(inst.name)[k])
            /\ Accepts(modes_of(inst.name)[k], inst._sig[1])

\* C18: a recipe whose availability flag for the current bitness is false
\* is never the selected one; when such a recipe would accept the
\* arguments, the selected recipe is an available one that accepts them,
\* or, when there is none, selection raises TypeError.
C18_DisallowedNeverSelected ==
    /\ (inst # NoInst /\ inst._mode # <<>>) => Allowed(inst._mode[1])
    /\ DisallowedWouldAccept =>
            IF \E k \in 1..Len(Candidates(inst.name)) :
                    Accepts(Candidates(inst.name)[k], inst._sig[1])
            THEN /\ inst._mode # <<>>
                 /\ \E k \in 1..Len(Candidates(inst.name)) :
                        /\ inst._mode[1] = Candidates(inst.name)[k]
                        /\ Accepts(Candidates(inst.name)[k], inst._sig[1])
            ELSE inst._mode = <<>> /\ out.exc.err = "TypeError"

\* on 64 bits inc(eax) was encoded as ff c0: the short form 40+rd has the
\* key r32 but is not available, and the r/m32 form was selected
C18_Witness ==
    /\ ARCH = 64 /\ DisallowedWouldAccept
    /\ inst.name = "inc" /\ inst.args = <<RegArg(eax)>>
    /\ inst._mode # <<>> /\ inst._mode[1].sig = <<Tag("r/m", 32)>>
    /\ inst._code = <<Bytes(<<255, 192>>)>>

\* the code of an instruction that is no relative branch was read and the
\* instruction was encoded
EncodedPlain ==
    /\ out.op = "code" /\ out.exc.err = "" /\ inst # NoInst
    /\ inst.name \notin RelBranchMnemonics
    /\ inst._code # <<>>

\* the encoding slot of operand i under the selected recipe
Slot(i) == operand_enc(inst._mode[1].enc)[i]

\* a 16-bit register is an operand: the operand-size prefix is required
Needs66 ==
    \E i \in 1..Len(inst.args) :
        /\ inst.args[i].t = "reg" /\ inst.args[i].reg.bits = 16
        /\ Slot(i) \in {"opcode", "rm", "reg"}

\* a memory operand is addressed with registers of half the native width:
\* the address-size prefix is required
Needs67 ==
    \E i \in 1..Len(inst.args) :
        /\ inst.args[i].t = "ptr" /\ Slot(i) = "rm"
        /\ Pointer_regs(inst.args[i].ptr) # <<>>
        /\ \A k \in 1..Len(Pointer_regs(inst.args[i].ptr)) :
               Pointer_regs(inst.args[i].ptr)[k].bits <= ARCH \div 2
        /\ \E k \in 1..Len(Pointer_regs(inst.args[i].ptr)) :
               Pointer_regs(inst.args[i].ptr)[k].bits = ARCH \div 2

\* C19: an encoded instruction starts with its prefix bytes, the REX byte
\* and the opcode follow them, and when both 0x67 and 0x66 are required
\* 0x67 comes first, in whatever operand order they were required.
C19_PrefixesFirst67Before66 ==
    EncodedPlain =>
        inst._code[1].code =
            (IF Needs67 THEN <<103>> ELSE <<>>) \o (IF Needs66 THEN <<102>> ELSE <<>>)
                \o inst._rex_byte[1] \o inst._opcode[1] \o join(inst._operands[1])

\* on 64 bits mov(ax, [r9d]) was encoded as 67 66 41 8b 01: the register
\* operand asked for 0x66 before the memory operand asked for 0x67
C19_Witness ==
    /\ EncodedPlain /\ ARCH = 64 /\ Needs66 /\ Needs67
    /\ inst.name = "mov"
    /\ inst.args = <<RegArg(ax), PtrArg(Pointer(<<r9d>>, <<>>, <<>>, <<>>))>>
    /\ inst._code = <<Bytes(<<103, 102, 65, 139, 1>>)>>

\* a register (<<r>>, or <<>> for none) has its extension bit set
Ext(r) == r # <<>> /\ Register_rex(r[1])

\* the field f of a ModR/M or SIB byte holds the low bits of register r,
\* or the value none when there is no register
Holds(f, r, none) == IF r = <<>> THEN f = none ELSE f = Register_val(r[1])

\* base and index are the roles the bytes m (ModR/M, then SIB if any) give
\* the registers of the Pointer p: a scaled register is the index, r/m 100
\* announces a SIB byte, index 100 is no index, base 101 with mod 00 is no
\* base
RolesIn(p, m, base, index) ==
    /\ <<base, index>> \in {<<p.reg1, p.reg2>>, <<p.reg2, p.reg1>>}
    /\ p.scale # <<>> => index = p.reg1
    /\ IF m[1] % 8 # 4
       THEN /\ index = <<>>
            /\ Holds(m[1] % 8, base, 5)
            /\ base = <<>> => m[1] \div 64 = 0
       ELSE /\ Len(m) >= 2
            /\ Holds((m[2] \div 8) % 8, index, 4)
            /\ Holds(m[2] % 8, base, 5)
            /\ base = <<>> => m[1] \div 64 = 0

\* the registers of the encoded instruction in the slot named enc
InSlot(enc) ==
    {inst.args[i].reg : i \in {j \in 1..Len(inst.args) :
                                    Slot(j) = enc /\ inst.args[j].t = "reg"}}

\* the REX byte for the bits W, R, X, B; none when no bit is set
RexOf(W, R, X, B) ==
    IF W \/ R \/ X \/ B
    THEN <<64 + (IF W THEN 8 ELSE 0) + (IF R THEN 4 ELSE 0)
              + (IF X THEN 2 ELSE 0) + (IF B THEN 1 ELSE 0)>>
    ELSE <<>>

\* the encoded instruction is prefixes, the REX byte rex, opcode, operands
RexBeforeOpcode(rex) ==
    inst._code[1].code =
        inst._prefixes[1] \o rex \o inst._opcode[1] \o join(inst._operands[1])

\* C20: an encoded instruction has a REX byte exactly when its template
\* asks for REX.W or a register in the opcode slot, the ModR/M reg field,
\* the ModR/M r/m field, the SIB base or the SIB index has its extension
\* bit set; the byte is 0x40 with exactly W, R (reg), X (index) and B (base,
\* r/m or opcode register), and it sits right before the first opcode byte.
C20_RexBits ==
    EncodedPlain =>
        IF \E i \in 1..Len(inst.args) : Slot(i) = "rm" /\ inst.args[i].t = "ptr"
        THEN \E i \in 1..Len(inst.args) :
                /\ Slot(i) = "rm" /\ inst.args[i].t = "ptr"
                /\ \E base, index \in {inst.args[i].ptr.reg1, inst.args[i].ptr.reg2} :
                       /\ RolesIn(inst.args[i].ptr, inst._operands[1][1], base, index)
                       /\ RexBeforeOpcode(
                              RexOf(inst._mode[1].op.rexw,
                                    \E r \in InSlot("reg") : Register_rex(r),
                                    Ext(index),
                                    Ext(base) \/ \E r \in InSlot("opcode") : Register_rex(r)))
        ELSE RexBeforeOpcode(
                 RexOf(inst._mode[1].op.rexw,
                       \E r \in InSlot("reg") : Register_rex(r),
                       FALSE,
                       \E r \in InSlot("rm") \cup InSlot("opcode") : Register_rex(r)))

\* on 64 bits mov(r8, [r8 + r13*2]) was encoded as 4f 8b 04 68: W from the
\* template, R from r8 in reg, X from the index r13, B from the base r8
C20_Witness ==
    /\ EncodedPlain /\ ARCH = 64
    /\ inst.name = "mov"
    /\ inst.args = <<RegArg(r8), PtrArg(Pointer(<<r13>>, <<2>>, <<r8>>, <<>>))>>
    /\ inst._rex_byte = <<(<<79>>)>>
    /\ inst._code = <<Bytes(<<79, 139, 4, 104>>)>>

\* the registers argument arg names: itself, or those of its address
ArgRegs(arg) ==
    CASE arg.t = "reg" -> {arg.reg}
      [] arg.t = "ptr" -> {Pointer_regs(arg.ptr)[k] : k \in 1..Len(Pointer_regs(arg.ptr))}
      [] OTHER -> {}

\* some argument of the instruction names a register whose extension bit
\* is set
NamesExtended == \E i \in 1..Len(inst.args) : \E r \in ArgRegs(inst.args[i]) : Register_rex(r)

\* C30: under 32-bit bitness no encoded instruction has a REX byte: its
\* bytes are its prefixes, opcode and operands with nothing in between, the
\* recipe selected for it is allowed on 32 bits and its template has no
\* REX.W, and an instruction that names a register with the extension bit
\* set raises when its signature or code is read, with no bytes produced:
\* TypeError, unless an argument to its left is refused first.
C30_NoRexOn32 ==
    (ARCH = 32 /\ inst # NoInst /\ out.op \in {"sig", "code"}) =>
        /\ NamesExtended =>
               /\ out.exc.err # "" /\ inst._code = <<>>
               /\ \E i \in 1..Len(inst.args) :
                      /\ \E r \in ArgRegs(inst.args[i]) : Register_rex(r)
                      /\ (\A j \in 1..(i - 1) : arg_tag(inst.args[j]).err = "")
                             => out.exc.err = "TypeError"
        /\ inst._mode # <<>> => (inst._mode[1].a32 /\ ~inst._mode[1].op.rexw)
        /\ EncodedPlain => RexBeforeOpcode(<<>>)
        /\ (out.op = "code" /\ out.exc.err = "" /\ inst._rex_byte # <<>>)
               => inst._rex_byte[1] = <<>>

\* on 32 bits, add([eax], 7) was encoded as 80 00 07, although a recipe of
\* add whose template has REX.W accepts its signature
C30_Witness ==
    /\ ARCH = 32 /\ EncodedPlain
    /\ inst.name = "add"
    /\ inst.args = <<PtrArg(Pointer(<<eax>>, <<>>, <<>>, <<>>)), IntArg(WInt(7))>>
    /\ \E k \in 1..Len(modes_of("add")) :
           modes_of("add")[k].op.rexw /\ Accepts(modes_of("add")[k], inst._sig[1])
    /\ inst._code[1].code = <<128, 0, 7>>

-----------------------------------------------------------------------------
(* parse_asm on texts written line by line, bad lines among them           *)

MaxLines == 3

\* the lines texts are made of
TextLines ==
    { <<>>,
      <<" ", "#", " ", "ret">>,
      <<"a", ":">>,
      <<"a", ":", " ", "ret">>,
      <<"ret">>,
      <<"jmp", " ", "a">>,
      <<"move", " ", "rax", ",", " ", "rax">>,
      <<" ", "jmp", " ", "c", " ", "#", " ", "ret">>,
      <<"add", " ", "rax", ",", " ", "eax">>,
      <<"ret", " ", "7", ",">>,
      <<"0mov">>,
      <<":", " ">>,
      <<"7", ":", " ", "ret">>,
      <<"a", " ", "b", ":", " ", "ret">> }

\* '\n'.join(lines)
RECURSIVE joined(_)
joined(lines) ==
    IF lines = <<>> THEN <<>>
    ELSE IF Len(lines) = 1 THEN lines[1]
    ELSE lines[1] \o <<"\n">> \o joined(Tail(lines))

NoText == [kind |-> "text", lines |-> <<>>, parsed |-> FALSE,
           r |-> [exc |-> Raise("", "", "", <<>>), code |-> <<>>]]

InitText ==
    /\ ARCH \in {32, 64}
    /\ asm = <<>>
    /\ pages = <<>>
    /\ fn = NoFn
    /\ inst = NoInst
    /\ bufA = Code(<<>>)
    /\ bufB = Code(<<>>)
    /\ out = NoText

\* the caller writes one more line
AddLine(l) ==
    /\ ~out.parsed
    /\ Len(out.lines) < MaxLines
    /\ out' = [out EXCEPT !.lines = Append(@, l)]
    /\ UNCHANGED <<ARCH, asm, pages, fn, bufA, bufB, inst>>

\* parse_asm(text)
ParseText ==
    /\ ~out.parsed
    /\ out' = [out EXCEPT !.parsed = TRUE, !.r = parse_asm(joined(out.lines), EmptyDict)]
    /\ UNCHANGED <<ARCH, asm, pages, fn, bufA, bufB, inst>>

NextText ==
    \/ \E l \in TextLines : AddLine(l)
    \/ ParseText

SpecText == InitText /\ [][NextText]_vars

\* the lines the parser reads as a definition of the label a
LinesOfLabelA ==
    {<<"a", ":">>, <<"a", ":", " ", "ret">>, <<"a", " ", "b", ":", " ", "ret">>}

\* what is wrong with line k of the text: the category of the error it
\* deserves, "" for a good line
LineFault(lines, k) ==
    LET l == lines[k]
    IN  IF l \in LinesOfLabelA
        THEN IF \E j \in 1..(k - 1) : lines[j] \in LinesOfLabelA
             THEN "NameError" ELSE ""
        ELSE IF l = <<"jmp", " ", "a">>
        THEN IF \E j \in 1..Len(lines) : lines[j] \in LinesOfLabelA
             THEN "" ELSE "NameError"
        ELSE CASE l = <<"move", " ", "rax", ",", " ", "rax">> -> "NameError"
               [] l = <<" ", "jmp", " ", "c", " ", "#", " ", "ret">> -> "NameError"
               [] l = <<"add", " ", "rax", ",", " ", "eax">> -> "TypeError"
               [] l = <<"ret", " ", "7", ",">> -> "SyntaxError"
               [] l = <<"0mov">> -> "SyntaxError"
               [] l = <<":", " ">> -> "SyntaxError"
               [] l = <<"7", ":", " ", "ret">> -> "SyntaxError"
               [] OTHER -> ""

\* C11 as stated: every error parse_asm raises names a bad line of the text
\* by its 1-based number (blank and comment-only lines counted), keeps the
\* category of what is wrong with that line, and quotes the original text of
\* the line.
C11_ErrorCarriesLineAndText ==
    (out.parsed /\ out.r.exc.err # "") =>
        \E k \in 1..Len(out.lines) :
            /\ out.r.exc.msg.lineno = k
            /\ out.r.exc.err = LineFault(out.lines, k)
            /\ out.r.exc.msg.shown = strip(out.lines[k])

\* the part of C11 the parser keeps: the category and the line number
C11_ErrorCarriesCategoryAndNumber ==
    (out.parsed /\ out.r.exc.err # "") =>
        \E k \in 1..Len(out.lines) :
            /\ out.r.exc.msg.lineno = k
            /\ out.r.exc.err = LineFault(out.lines, k)

\* an unknown mnemonic on line 3, behind a blank and a comment-only line:
\* the error is a NameError for line 3 that quotes the mnemonic alone
C11_Witness ==
    /\ out.parsed
    /\ out.lines = << <<>>, <<" ", "#", " ", "ret">>,
                      <<"move", " ", "rax", ",", " ", "rax">> >>
    /\ out.r.exc.err = "NameError"
    /\ out.r.exc.msg.lineno = 3
    /\ out.r.exc.msg.shown = <<"move">>

\* the text of line l before its first ':', comment removed; the line has
\* a ':' outside its comment
HasColon(l) == partition(partition(strip(l), "#")[1], ":")[2] # <<>>
BeforeColon(l) == partition(partition(strip(l), "#")[1], ":")[1]

\* the text before the first ':' of l is not exactly one identifier with
\* optional whitespace around it
MalformedLabel(l) ==
    /\ HasColon(l)
    /\ ~(Len(strip(BeforeColon(l))) = 1 /\ strip(BeforeColon(l))[1] \in IdentTokens)

\* C21: parse_asm raises a syntax error for a line whose text before the
\* first ':' is not exactly one identifier, optionally surrounded by
\* whitespace (an empty prefix, a prefix starting with a digit, a prefix
\* with extra characters after an identifier), unless an earlier line
\* defined a label twice.
C21_MalformedLabelRejected ==
    out.parsed =>
        \A k \in 1..Len(out.lines) :
            (/\ MalformedLabel(out.lines[k])
             /\ \A j \in 1..(k - 1) : ~MalformedLabel(out.lines[j]))
                => \/ /\ out.r.exc.err = "SyntaxError"
                      /\ out.r.exc.msg.lineno = k
                   \/ /\ out.r.exc.err = "NameError"
                      /\ out.r.exc.msg.text = "Duplicate symbol"
                      /\ out.r.exc.msg.lineno < k

\* 'a b: ret' was parsed without an error into the label a and ret
C21_Witness ==
    /\ out.parsed
    /\ out.lines = << <<"a", " ", "b", ":", " ", "ret">> >>
    /\ MalformedLabel(out.lines[1])
    /\ out.r.exc.err = ""
    /\ Len(out.r.code) = 2
    /\ out.r.code[1] = LabelEntry("a")
    /\ out.r.code[2].inst.name = "ret"

-----------------------------------------------------------------------------
(* The lifetime of the executable region.  Objects are reference counted:  *)
(* an object is deallocated when its last reference is dropped, and the    *)
(* deallocation of a CodePage drops its mmap (WinPage.__del__ on Windows), *)
(* which releases the region.  A page is named by its index in pages.      *)

MaxFns == 3

\* the programs pages are built from
LifePrograms ==
    { <<InstEntry(Instruction("ret", <<>>))>>,
      <<BytesEntry(<<144>>), LabelEntry("a"), InstEntry(Instruction("ret", <<>>))>> }

\* a function pointer that keeps no reference to its page
function_pointer_bare(self, addr) ==
    [region |-> self, page |-> 0, addr |-> addr, live |-> TRUE]

\* f = ctypes.CFUNCTYPE(None)(addr); f.page = self.  region is the page
\* whose region addr lies in, page the attribute set on f.
function_pointer(self, addr) ==
    [region |-> self, page |-> self, addr |-> addr, live |-> TRUE]

NoHeap == [kind |-> "heap", held |-> <<>>, mapped |-> <<>>, fns |-> <<>>]

InitLife ==
    /\ ARCH \in {32, 64}
    /\ asm = <<>>
    /\ pages = <<>>
    /\ fn = NoFn
    /\ inst = NoInst
    /\ bufA = Code(<<>>)
    /\ bufB = Code(<<>>)
    /\ out = NoHeap

\* page i is referenced: by the caller's variable or by a live callable
Referenced(heap, i) ==
    heap.held[i] \/ \E k \in 1..Len(heap.fns) : heap.fns[k].live /\ heap.fns[k].page = i

\* the deallocation that follows a dropped reference: the region of every
\* page without a reference is released
collected(heap) ==
    [heap EXCEPT !.mapped = [i \in 1..Len(heap.mapped) |-> heap.mapped[i] /\ Referenced(heap, i)]]

\* the constructor gave r: a page that was built is held by the caller
PageHeld(r) ==
    /\ r.page.exc.err = ""
    /\ pages' = Append(pages, r.page)
    /\ out' = [out EXCEPT !.held = Append(@, TRUE), !.mapped = Append(@, TRUE)]

\* page = CodePage(code)
NewPage(code, base) ==
    /\ Len(pages) < MaxPages
    /\ PageHeld(CodePage_init("list", code, base))
    /\ UNCHANGED <<ARCH, asm, fn, bufA, bufB, inst>>

\* the constructor gave r; page.get_function() is returned, and the local
\* variable page of mkfunction is gone when it returns
FunctionMade(r) ==
    /\ r.page.exc.err = ""
    /\ pages' = Append(pages, r.page)
    /\ out' = collected([out EXCEPT
                  !.held = Append(@, FALSE), !.mapped = Append(@, TRUE),
                  !.fns = Append(@, function_pointer(Len(pages) + 1,
                                                     get_function(r.page, <<>>).addr))])

\* f = mkfunction(code)
MkFunction(code, base) ==
    /\ Len(pages) < MaxPages
    /\ Len(out.fns) < MaxFns
    /\ FunctionMade(CodePage_init("list", code, base))
    /\ UNCHANGED <<ARCH, asm, fn, bufA, bufB, inst>>

\* get_function gave r for page i
FunctionGot(i, r) ==
    /\ r.err = ""
    /\ out' = [out EXCEPT !.fns = Append(@, function_pointer(i, r.addr))]

\* f = page.get_function(label), page being a variable of the caller
GetFunctionOf(i, label) ==
    /\ i \in 1..Len(pages)
    /\ out.held[i]
    /\ Len(out.fns) < MaxFns
    /\ FunctionGot(i, get_function(pages[i], label))
    /\ UNCHANGED <<ARCH, asm, pages, fn, bufA, bufB, inst>>

\* del page: the caller drops its reference to page i
DropPage(i) ==
    /\ i \in 1..Len(pages)
    /\ out.held[i]
    /\ out' = collected([out EXCEPT !.held[i] = FALSE])
    /\ UNCHANGED <<ARCH, asm, pages, fn, bufA, bufB, inst>>

\* del f: the caller drops callable k
DropFunction(k) ==
    /\ k \in 1..Len(out.fns)
    /\ out.fns[k].live
    /\ out' = collected([out EXCEPT !.fns[k].live = FALSE])
    /\ UNCHANGED <<ARCH, asm, pages, fn, bufA, bufB, inst>>

NextLife ==
    \/ \E code \in LifePrograms, base \in Bases : NewPage(code, base)
    \/ \E code \in LifePrograms, base \in Bases : MkFunction(code, base)
    \/ \E i \in 1..MaxPages, label \in {<<>>, <<"a">>} : GetFunctionOf(i, label)
    \/ \E i \in 1..MaxPages : DropPage(i)
    \/ \E k \in 1..MaxFns : DropFunction(k)

SpecLife == InitLife /\ [][NextLife]_vars

\* C12: the region of a page is mapped while a callable made from the page
\* is live, whether or not the caller still holds the page; a region that
\* was released belongs to a page the caller dropped and whose callables
\* were all dropped.
C12_RegionOutlivesCallables ==
    /\ \A k \in 1..Len(out.fns) : out.fns[k].live => out.mapped[out.fns[k].region]
    /\ \A i \in 1..Len(out.mapped) :
           ~out.mapped[i] =>
               /\ ~out.held[i]
               /\ \A k \in 1..Len(out.fns) : out.fns[k].region = i => ~out.fns[k].live

\* the caller dropped a page whose callable for label a is still live, and
\* the region of another page, made by mkfunction, was released with its
\* callable
C12_Witness ==
    \E i, j \in 1..Len(pages), k, h \in 1..Len(out.fns) :
        /\ ~out.held[i] /\ out.mapped[i]
        /\ out.fns[k].live /\ out.fns[k].region = i
        /\ out.fns[k].addr = pages[i].page_addr + 1
        /\ ~out.mapped[j] /\ out.fns[h].region = j /\ ~out.fns[h].live

-----------------------------------------------------------------------------
(* Sums of two registers and an integer, in every order                    *)

\* the terms of a sum: r1, r2 and d
Terms == {1, 2, 3}

\* pairs of registers summed, the scales one of them may carry, the
\* integers added and the destinations of mov r, [...]
SumRegs == {rax, rcx, rsp, rbp, r8, r13, eax, ecx, esp, ebp, r9d, bx, si}
SumScales == {1, 2, 4, 8}
SumDisps == {WInt(0), WInt(8), WInt(-8), WInt(300), WNorm(0, 128, 2)}
SumDsts == {eax, r8}

\* Pointer.__eq__: two addresses are equal when their components are
Pointer_eq(p, q) ==
    /\ p.reg1 = q.reg1
    /\ p.scale = q.scale
    /\ p.reg2 = q.reg2
    /\ p.disp = q.disp

NoSum == [kind |-> "sum", op |-> "none", r1 |-> NoReg, r2 |-> NoReg, on |-> 0, scale |-> 1,
          d |-> WInt(0), dst |-> NoReg, order |-> <<>>, acc |-> Ok(IntArg(WInt(0))),
          exc |-> Raise("", "", "", <<>>)]

InitSum ==
    /\ ARCH \in {32, 64}
    /\ asm = <<>>
    /\ pages = <<>>
    /\ fn = NoFn
    /\ bufA = Code(<<>>)
    /\ bufB = Code(<<>>)
    /\ inst = NoInst
    /\ \E r1 \in SumRegs, r2 \in SumRegs, on \in 0..2, scale \in SumScales,
          d \in SumDisps, dst \in SumDsts :
          /\ r1 # r2
          /\ r1.bits = r2.bits
          /\ on = 0 => scale = 1
          /\ out = [NoSum EXCEPT !.r1 = r1, !.r2 = r2, !.on = on, !.scale = scale,
                                 !.d = d, !.dst = dst]

\* r * scale as a value
scaled_term(r) == IF r.err # "" THEN r ELSE Ok(PtrArg(r.val))

\* the three terms of the sum s: r1, r2 (one of them possibly scaled), d
Term(s, i) ==
    CASE i = 1 -> IF s.on = 1 THEN scaled_term(Register_mul(s.r1, s.scale))
                  ELSE Ok(RegArg(s.r1))
      [] i = 2 -> IF s.on = 2 THEN scaled_term(Register_mul(s.r2, s.scale))
                  ELSE Ok(RegArg(s.r2))
      [] i = 3 -> Ok(IntArg(s.d))

\* acc + t, unless an earlier step raised
plus(acc, t) ==
    IF acc.err # "" THEN acc
    ELSE IF t.err # "" THEN t
    ELSE py_add(acc.val, t.val)

\* the terms of s summed left to right in the given order
SumIn(s, order) == plus(plus(Term(s, order[1]), Term(s, order[2])), Term(s, order[3]))

\* the next term is written: acc = term, or acc = acc + term
AddTerm(i) ==
    /\ out.op \in {"none", "add"}
    /\ \A k \in 1..Len(out.order) : out.order[k] # i
    /\ out' = [out EXCEPT !.op = "add",
                          !.order = Append(@, i),
                          !.acc = IF out.order = <<>> THEN Term(out, i)
                                  ELSE plus(@, Term(out, i))]
    /\ UNCHANGED <<ARCH, asm, pages, fn, bufA, bufB, inst>>

\* mov(dst, [acc]).code was read and gave r
Moved(r) ==
    /\ inst' = r.self
    /\ out' = [out EXCEPT !.op = "mov", !.exc = r.exc]

\* mov(dst, [acc]).code
MovSum ==
    /\ out.op = "add"
    /\ Len(out.order) = Cardinality(Terms)
    /\ out.acc.err = ""
    /\ Moved(Instruction_code(Instruction("mov", <<RegArg(out.dst), out.acc.val>>)))
    /\ UNCHANGED <<ARCH, asm, pages, fn, bufA, bufB>>

NextSum ==
    \/ \E i \in Terms : AddTerm(i)
    \/ MovSum

SpecSum == InitSum /\ [][NextSum]_vars

\* the sum in the order written agrees with the sum in the order ref: the
\* Pointers compare equal and mov encodes (or fails) the same way
AgreesWith(ref, moved) ==
    /\ ref.err = ""
    /\ Pointer_eq(out.acc.val.ptr, ref.val.ptr)
    /\ out.exc = moved.exc
    /\ inst._code = moved.self._code

SumAgrees(ref) ==
    AgreesWith(ref, Instruction_code(Instruction("mov", <<RegArg(out.dst), ref.val>>)))

\* C13 (as stated): for distinct registers r1, r2 of the same width, an
\* optional scale on one of them and an integer d, every order of summing
\* the terms gives a Pointer equal to r1 + r2 + d and the same bytes in
\* mov r, [...]
C13_EveryOrderAgrees ==
    (out.kind = "sum" /\ out.op = "mov") => SumAgrees(SumIn(out, <<1, 2, 3>>))

\* r2 was written before r1
Exchanged(order) ==
    \E j, k \in 1..Len(order) : j < k /\ order[j] = 2 /\ order[k] = 1

\* C13 (amended): when one of the registers carries a scale, every order of
\* summing the terms gives a Pointer equal to r1 + r2 + d and the same
\* bytes in mov r, [...]; without a scale this holds of the orders that
\* keep r1 before r2, and the orders that write r2 first agree with
\* r2 + r1 + d
C13_OrdersAgreeUpToRegisterOrder ==
    (out.kind = "sum" /\ out.op = "mov") =>
        IF out.on = 0 /\ Exchanged(out.order)
        THEN SumAgrees(SumIn(out, <<2, 1, 3>>))
        ELSE SumAgrees(SumIn(out, <<1, 2, 3>>))

\* rcx + 8 + rax*2 was encoded in mov r8, [...]: the scaled register moved
\* in front of rcx
C13_Witness ==
    /\ out.kind = "sum" /\ out.op = "mov"
    /\ ARCH = 64
    /\ out.on = 1 /\ out.r1 = rax /\ out.r2 = rcx /\ out.scale = 2
    /\ out.order = <<2, 3, 1>>
    /\ out.exc.err = ""
    /\ inst._code = <<Bytes(<<76, 139, 68, 65, 8>>)>>

-----------------------------------------------------------------------------
(* The builder operators +, - and * applied one after another to          *)
(* registers, integers and Pointers.  acc is the value built so far; each  *)
(* step combines it with an operand on either side.                        *)

MaxOps == 3

\* Register.__sub__
Register_sub(self, x) ==
    IF x.t = "int" THEN Ok(Pointer(<<self>>, <<>>, <<>>, <<WNorm(0 - x.w.h, 0 - x.w.m, 0 - x.w.l)>>))
    ELSE Err("TypeError")

\* a - b: only Register defines __sub__, and no class defines __rsub__
py_sub(a, b) ==
    CASE a.t = "reg" -> as_value(Register_sub(a.reg, b))
      [] a.t = "int" /\ b.t = "int" ->
            Ok(IntArg(WNorm(a.w.h - b.w.h, a.w.m - b.w.m, a.w.l - b.w.l)))
      [] OTHER -> Err("TypeError")

\* a * b: Register.__mul__ and __rmul__ take an int; Pointer defines neither
py_mul(a, b) ==
    CASE a.t = "reg" /\ b.t = "int" -> as_value(Register_mul(a.reg, WSmall(b.w)))
      [] a.t = "int" /\ b.t = "reg" -> as_value(Register_mul(b.reg, WSmall(a.w)))
      [] a.t = "int" /\ b.t = "int" -> Ok(IntArg(WInt(WSmall(a.w) * WSmall(b.w))))
      [] OTHER -> Err("TypeError")

\* a op b
py_op(op, a, b) ==
    CASE op = "+" -> py_add(a, b)
      [] op = "-" -> py_sub(a, b)
      [] op = "*" -> py_mul(a, b)

\* the operands a and b as a op b leaves them: __add__ works on
\* y = self.copy(), __sub__ and __mul__ build a new Pointer, and no
\* operator assigns to a field of self or x
operands_after(op, a, b) == <<a, b>>

\* the operands the steps draw from
AlgOperands ==
    { RegArg(rax), RegArg(rcx), RegArg(r8), RegArg(rsp),
      IntArg(WInt(2)), IntArg(WInt(3)), IntArg(WInt(8)),
      PtrArg(Pointer(<<rcx>>, <<4>>, <<>>, <<>>)),                \* rcx*4
      PtrArg(Pointer(<<r8>>, <<>>, <<rax>>, <<WInt(8)>>)) }       \* r8 + rax + 8

NoAlg == [kind |-> "alg", n |-> 0, acc |-> IntArg(WInt(0)), op |-> "none",
          lhs |-> IntArg(WInt(0)), rhs |-> IntArg(WInt(0)),
          after |-> <<IntArg(WInt(0)), IntArg(WInt(0))>>, r |-> Ok(IntArg(WInt(0)))]

InitAlg ==
    /\ ARCH \in {32, 64}
    /\ asm = <<>>
    /\ pages = <<>>
    /\ fn = NoFn
    /\ bufA = Code(<<>>)
    /\ bufB = Code(<<>>)
    /\ inst = NoInst
    /\ \E a \in AlgOperands : out = [NoAlg EXCEPT !.acc = a]

\* acc = a op b was run and gave r: an exception leaves acc as it was
Applied(op, a, b, r) ==
    /\ out' = [out EXCEPT !.n = @ + 1, !.op = op, !.lhs = a, !.rhs = b,
                          !.after = operands_after(op, a, b), !.r = r,
                          !.acc = IF r.err = "" THEN r.val ELSE @]
    /\ UNCHANGED <<ARCH, asm, pages, fn, bufA, bufB, inst>>

\* acc = acc op x
OpRight(op, x) ==
    /\ out.n < MaxOps
    /\ Applied(op, out.acc, x, py_op(op, out.acc, x))

\* acc = x op acc
OpLeft(op, x) ==
    /\ out.n < MaxOps
    /\ Applied(op, x, out.acc, py_op(op, x, out.acc))

NextAlg ==
    \/ \E op \in {"+", "-", "*"}, x \in AlgOperands : OpRight(op, x)
    \/ \E op \in {"+", "-", "*"}, x \in AlgOperands : OpLeft(op, x)

SpecAlg == InitAlg /\ [][NextAlg]_vars

\* the registers of a value, one element for each occurrence, and its
\* scaled register if any
RegsOf(v) ==
    CASE v.t = "reg" -> <<v.reg>>
      [] v.t = "ptr" -> Pointer_regs(v.ptr)
      [] OTHER -> <<>>

\* s and t hold the same registers the same number of times
SameRegs(s, t) ==
    /\ Len(s) = Len(t)
    /\ \A k \in 1..Len(s) :
           Cardinality({j \in 1..Len(s) : s[j] = s[k]})
               = Cardinality({j \in 1..Len(t) : t[j] = s[k]})

ScaledOf(v) ==
    IF v.t = "ptr" /\ v.ptr.scale # <<>> THEN {<<v.ptr.reg1[1], v.ptr.scale[1]>>} ELSE {}

\* at most two registers, filled from reg1; a scale is 1, 2, 4 or 8 and
\* belongs to reg1, the index slot, which leaves reg2 as the base
WellFormedPointer(p) ==
    /\ p.reg2 # <<>> => p.reg1 # <<>>
    /\ p.scale # <<>> => p.scale[1] \in {1, 2, 4, 8} /\ p.reg1 # <<>>

\* C22: after any sequence of +, - and * on registers, integers and
\* Pointers a resulting Pointer holds the registers of its operands, at
\* most two, and at most one scale, which is 1, 2, 4 or 8 and belongs to
\* the index slot; a third register, a second scaled register or another
\* factor raises an error, and the operands are left as they were.
C22_PointerShape ==
    out.op # "none" =>
        /\ out.acc.t = "ptr" => WellFormedPointer(out.acc.ptr)
        /\ (out.op = "+" /\ Len(RegsOf(out.lhs) \o RegsOf(out.rhs)) > 2)
                => out.r.err # ""
        /\ (out.op = "+" /\ ScaledOf(out.lhs) # {} /\ ScaledOf(out.rhs) # {})
                => out.r.err # ""
        /\ (/\ out.op = "*"
            /\ {out.lhs.t, out.rhs.t} = {"reg", "int"}
            /\ WSmall(IF out.lhs.t = "int" THEN out.lhs.w ELSE out.rhs.w) \notin {1, 2, 4, 8})
                => out.r.err # ""
        /\ (out.r.err = "" /\ out.r.val.t = "ptr" /\ out.op = "+")
                => /\ SameRegs(RegsOf(out.r.val), RegsOf(out.lhs) \o RegsOf(out.rhs))
                   /\ ScaledOf(out.r.val) = ScaledOf(out.lhs) \cup ScaledOf(out.rhs)
        /\ out.r.err # "" => out.after = <<out.lhs, out.rhs>>

\* (rax + rcx*4) + r8 raised TypeError: a third register
C22_Witness ==
    /\ out.kind = "alg" /\ out.op = "+"
    /\ out.lhs = PtrArg(Pointer(<<rcx>>, <<4>>, <<rax>>, <<>>))
    /\ out.rhs = RegArg(r8)
    /\ out.r.err = "TypeError"
    /\ out.acc = out.lhs /\ out.after = <<out.lhs, out.rhs>>

-----------------------------------------------------------------------------
(* Effective addresses of every shape, encoded as the memory operand of a  *)
(* mov: mov(dst, [p]) and mov([p], dst).                                   *)

AddrRegs == {rax, rcx, rsp, rbp, r8, r12, r13, eax, esp, ebp, r9d}
AddrScales == {<<>>, <<1>>, <<2>>, <<4>>, <<8>>}
AddrDisps ==
    { <<>>, <<WInt(0)>>, <<WInt(8)>>, <<WInt(-8)>>, <<WInt(127)>>, <<WInt(128)>>,
      <<WInt(-128)>>, <<WInt(-129)>>, <<WInt(300)>>, <<WInt(-70000)>>,
      <<WNorm(0, 128, 2)>> }
AddrDsts == {eax, r8}

NoAddr == [kind |-> "addr", op |-> "none", p |-> NoPtr, dst |-> NoReg,
           exc |-> Raise("", "", "", <<>>)]

InitAddr ==
    /\ ARCH \in {32, 64}
    /\ asm = <<>>
    /\ pages = <<>>
    /\ fn = NoFn
    /\ bufA = Code(<<>>)
    /\ bufB = Code(<<>>)
    /\ inst = NoInst
    /\ \E reg1 \in {<<>>} \cup {<<r>> : r \in AddrRegs}, scale \in AddrScales,
          reg2 \in {<<>>} \cup {<<r>> : r \in AddrRegs}, disp \in AddrDisps,
          dst \in AddrDsts :
          /\ reg2 # <<>> => reg1 # <<>>
          /\ scale # <<>> => reg1 # <<>>
          /\ out = [NoAddr EXCEPT !.p = Pointer(reg1, scale, reg2, disp), !.dst = dst]

\* the code of the mov was read and gave r
AddrEncoded(op, r) ==
    /\ inst' = r.self
    /\ out' = [out EXCEPT !.op = op, !.exc = r.exc]
    /\ UNCHANGED <<ARCH, asm, pages, fn, bufA, bufB>>

\* mov(dst, [p]).code
LoadAddr ==
    /\ out.op = "none"
    /\ AddrEncoded("load", Instruction_code(Instruction("mov", <<RegArg(out.dst), PtrArg(out.p)>>)))

\* mov([p], dst).code
StoreAddr ==
    /\ out.op = "none"
    /\ AddrEncoded("store", Instruction_code(Instruction("mov", <<PtrArg(out.p), RegArg(out.dst)>>)))

NextAddr ==
    \/ LoadAddr
    \/ StoreAddr

SpecAddr == InitAddr /\ [][NextAddr]_vars

\* the mov was encoded
AddrDone == out.kind = "addr" /\ out.op # "none" /\ out.exc.err = ""

\* the ModR/M byte, the SIB byte and the displacement of the encoded mov,
\* and the fields of the two bytes
ModRmBytes == inst._operands[1][1]
ModField == ModRmBytes[1] \div 64
RmField == ModRmBytes[1] % 8
HasSib == RmField = 4
IndexField == (ModRmBytes[2] \div 8) % 8
BaseField == ModRmBytes[2] % 8
DispBytes == SubSeq(ModRmBytes, IF HasSib THEN 3 ELSE 2, Len(ModRmBytes))
RexBit(b) == inst._rex_byte[1] # <<>> /\ (inst._rex_byte[1][1] \div b) % 2 = 1

\* register r is what the SIB index field, X being its extension, selects
IsIndex(r) == HasSib /\ IndexField = Register_val(r) /\ RexBit(2) = Register_rex(r)
\* register r is what the SIB base field, B being its extension, selects
IsBase(r) == HasSib /\ BaseField = Register_val(r) /\ RexBit(1) = Register_rex(r)

\* sp, esp, rsp: low bits 100 without the extension bit
StackPointer(r) == Register_val(r) = 4 /\ ~Register_rex(r)

\* C23: no encoded Pointer has a stack pointer as SIB index: in an unscaled
\* pair the stack pointer is the base and the other register the index,
\* whichever side it was written on; two stack pointers raise TypeError; a
\* scaled stack pointer raises TypeError with or without a base; r12 is
\* accepted as a scaled index.
C23_StackPointerNeverIndex ==
    (out.kind = "addr" /\ out.op # "none") =>
        /\ (/\ out.exc.err = ""
            /\ out.p.scale = <<>> /\ out.p.reg1 # <<>> /\ out.p.reg2 # <<>>
            /\ StackPointer(out.p.reg1[1]) # StackPointer(out.p.reg2[1]))
                => IF StackPointer(out.p.reg1[1])
                   THEN IsBase(out.p.reg1[1]) /\ IsIndex(out.p.reg2[1])
                   ELSE IsBase(out.p.reg2[1]) /\ IsIndex(out.p.reg1[1])
        /\ (/\ out.p.scale = <<>> /\ out.p.reg1 # <<>> /\ out.p.reg2 # <<>>
            /\ StackPointer(out.p.reg1[1]) /\ StackPointer(out.p.reg2[1]))
                => out.exc.err = "TypeError"
        /\ (out.p.scale # <<>> /\ StackPointer(out.p.reg1[1]))
                => out.exc.err = "TypeError"
        /\ (/\ ARCH = 64 /\ out.p.scale # <<>> /\ out.p.reg1 = <<r12>>
            /\ \A k \in 1..Len(out.p.reg2) : out.p.reg2[k].bits = 64)
                => out.exc.err = "" /\ IsIndex(r12)

\* on 64 bits mov(eax, [rsp + rcx]), written with the stack pointer first,
\* was encoded as 8b 04 0c: index rcx, base rsp
C23_Witness ==
    /\ AddrDone /\ ARCH = 64 /\ out.op = "load" /\ out.dst = eax
    /\ out.p = Pointer(<<rsp>>, <<>>, <<rcx>>, <<>>)
    /\ IsBase(rsp) /\ IsIndex(rcx)
    /\ inst._code = <<Bytes(<<139, 4, 12>>)>>

\* the displacement of the Pointer, 0 when it has none
DispValue == IF out.p.disp = <<>> THEN WInt(0) ELSE out.p.disp[1]

\* the Pointer has a base register: a single unscaled register, or a
\* second register next to the first
HasBase ==
    \/ out.p.scale = <<>> /\ out.p.reg1 # <<>>
    \/ out.p.reg2 # <<>>

\* the low three bits of the base as encoded: the SIB base field, or the
\* r/m field without a SIB byte
BaseLow == IF HasSib THEN BaseField ELSE RmField

\* C24: for a Pointer with a base register under 32- or 64-bit addressing
\* the displacement is encoded by its value alone: zero or absent gives no
\* displacement bytes and mod 00 (for a base with low bits 101, mod 01 and
\* one zero byte); a non-zero value of -128..127 gives one signed byte and
\* mod 01; any other value gives four little-endian bytes and mod 10.
C24_DisplacementByValue ==
    (AddrDone /\ HasBase) =>
        IF DispValue = WInt(0)
        THEN IF BaseLow = 5
             THEN ModField = 1 /\ DispBytes = <<0>>
             ELSE ModField = 0 /\ DispBytes = <<>>
        ELSE IF FitsSigned(DispValue, 8)
        THEN ModField = 1 /\ DispBytes = WBytes(DispValue, 8)
        ELSE ModField = 2 /\ DispBytes = WBytes(DispValue, 32)

\* on 64 bits mov(eax, [rcx - 129]) was encoded as 8b 81 7f ff ff ff
C24_Witness ==
    /\ AddrDone /\ HasBase /\ ARCH = 64 /\ out.op = "load" /\ out.dst = eax
    /\ out.p = Pointer(<<rcx>>, <<>>, <<>>, <<WInt(-129)>>)
    /\ ModField = 2
    /\ inst._code = <<Bytes(<<139, 129, 127, 255, 255, 255>>)>>

\* the encoded address has mod 01 and a single zero displacement byte
ZeroDisp8 == ModField = 1 /\ DispBytes = <<0>>

\* C25: a Pointer whose base has the low bits 101 (ebp, rbp, r13) and whose
\* displacement is zero or absent is encoded with mod 01 and one zero
\* displacement byte, never with mod 00, as a single register, as an
\* unscaled pair and with a scaled index alike.
C25_BpBaseTakesZeroDisp8 ==
    (AddrDone /\ DispValue = WInt(0)) =>
        /\ (/\ out.p.scale = <<>> /\ out.p.reg1 # <<>> /\ out.p.reg2 = <<>>
            /\ Register_val(out.p.reg1[1]) = 5)
                => ~HasSib /\ RmField = 5 /\ ZeroDisp8
        /\ (/\ out.p.scale = <<>> /\ out.p.reg2 # <<>>
            /\ \E r \in {out.p.reg1[1], out.p.reg2[1]} : Register_val(r) = 5 /\ IsBase(r))
                => ZeroDisp8
        /\ (/\ out.p.scale # <<>> /\ out.p.reg2 # <<>>
            /\ Register_val(out.p.reg2[1]) = 5)
                => IsBase(out.p.reg2[1]) /\ ZeroDisp8

\* on 64 bits mov(eax, [r13]) was encoded as 41 8b 45 00
C25_Witness ==
    /\ AddrDone /\ ARCH = 64 /\ out.op = "load" /\ out.dst = eax
    /\ out.p = Pointer(<<r13>>, <<>>, <<>>, <<>>)
    /\ ZeroDisp8
    /\ inst._code = <<Bytes(<<65, 139, 69, 0>>)>>

\* the four bytes b read as a signed 32-bit little-endian integer
Signed32(b) ==
    IF b[4] >= 128
    THEN WNorm(-1, Limb - 256 + b[4], b[1] + 256 * b[2] + 65536 * b[3])
    ELSE WNorm(0, b[4], b[1] + 256 * b[2] + 65536 * b[3])

\* the Pointer is a scaled index without a base, its displacement in the
\* signed 32-bit range
ScaledAlone ==
    /\ out.p.scale # <<>> /\ out.p.reg1 # <<>> /\ out.p.reg2 = <<>>
    /\ FitsSigned(DispValue, 32)

\* C29: for a Pointer with a scaled index and no base the four bytes after
\* the SIB byte, read as a signed 32-bit little-endian integer, are the
\* displacement of the Pointer, negative ones of -128..-1 and a zero or
\* absent one included.
C29_ScaledAloneDisp32 ==
    (AddrDone /\ ScaledAlone) =>
        /\ HasSib /\ ModField = 0 /\ BaseField = 5
        /\ Len(DispBytes) = 4
        /\ Signed32(DispBytes) = DispValue

\* on 64 bits mov(eax, [rcx*2 - 8]) was encoded as 8b 04 4d f8 00 00 00,
\* whose displacement reads 248
C29_Witness ==
    /\ AddrDone /\ ScaledAlone /\ ARCH = 64 /\ out.op = "load" /\ out.dst = eax
    /\ out.p = Pointer(<<rcx>>, <<2>>, <<>>, <<WInt(-8)>>)
    /\ inst._code = <<Bytes(<<139, 4, 77, 248, 0, 0, 0>>)>>
    /\ Signed32(DispBytes) = WInt(248)

====
